---- MODULE Spec2Model ----
(***************************************************************************)
(* A model of the cooperative synchronisation primitives of uvm-python:    *)
(*   - sv.semaphore           (src/src/uvm/base/sv.py)                     *)
(*   - UVMEventBase/UVMEvent  (src/src/uvm/base/uvm_event.py)              *)
(* and of its keyed registries:                                            *)
(*   - UVMPool and its subclasses (src/src/uvm/base/uvm_pool.py)           *)
(* of its lockable data holder:                                            *)
(*   - uvm_simple_lock_dap    (src/src/uvm/dap/uvm_simple_lock_dap.py)     *)
(* and of the phasing of the component tree:                               *)
(*   - UVMTopdownPhase        (src/src/uvm/base/uvm_topdown_phase.py)      *)
(*   - the phase node state machine and its scheduler, after their design  *)
(* Tasks are cocotb coroutines: a task runs uninterrupted until it awaits, *)
(* so every action below is the code between two suspension points.        *)
(***************************************************************************)
EXTENDS Integers, Sequences, FiniteSets, TLC

(***************************************************************************)
(* Bounds of the model.                                                    *)
(***************************************************************************)
NumTasks == 2
MaxCap == 3
\* a get is started only while count >= -MaxDebt (the code lets count sink without limit)
MaxDebt == 2

\* the callbacks that can be registered on the event
NumCbs == 2
\* logical time runs from 0 to MaxTime
MaxTime == 1

\* the registry instances that are ever made, the global ones included
MaxPools == 2
\* the elements that are ever constructed
MaxObjs == 2

\* the error reports of the data holder that are followed
MaxReports == 2

\* the components of the tree, the root included
NumComps == 3

\* the extension rounds a phase node may spend in READY_TO_END
MaxRounds == 2
\* the jump requests that are followed
MaxJumps == 1

Tasks == 1..NumTasks
\* the unit counts a caller may pass: up to one more than the largest capacity
Units == 1..(MaxCap + 1)
\* the callback objects
CbIds == 1..NumCbs
\* the payloads of trigger; None is Python's None
None == "None"
Payloads == {None, "d1"}

VARIABLES
    \* ---- sv.semaphore: the object's fields
    max_count,      \* semaphore.max_count
    count,          \* semaphore.count
    locked,         \* semaphore.locked
    lock,           \* semaphore.lock, a cocotb Lock: [locked, pending]
    \* ---- the tasks using the semaphore
    spc,            \* where each task is: "idle", "timer0", "waitlock", "granted"
    sarg,           \* the count argument of the get a task is inside (0 when idle)
    sret,           \* the outcome of the call that completed last
    \* ---- observers (history only; no action reads them in a guard)
    argsOk,         \* every call so far passed 1 <= n <= max_count
    mon             \* follows the scenario "C sequential get(1), one more, put(1)"

semVars == <<max_count, count, locked, lock, spc, sarg, sret, argsOk, mon>>

VARIABLES
    \* ---- UVMEvent: the object's fields
    m_event,        \* UVMEventBase.m_event, a cocotb Event: [fired, data]
    num_waiters,    \* UVMEventBase.num_waiters
    on,             \* UVMEventBase.on
    trigger_time,   \* UVMEventBase.trigger_time
    trigger_data,   \* UVMEvent.trigger_data
    callbacks,      \* UVMEventBase.callbacks, in list order
    value_changed,  \* UVMEventBase.m_value_changed_event.fired
    \* ---- the environment
    now,            \* sv.realtime(): the logical time
    epc,            \* where each task is: "idle", "wt_wait", "wt_run", "wp_wait",
                    \* "wp_run", or "orphan" (waiting on an Event object that
                    \* reset has replaced, which nothing can set any more);
                    \* in wait_on: "won_t2", "won_t1" (zero-delay timers left),
                    \* "won_wait", "won_run"; in wait_off: "woff_t1",
                    \* "woff_wait", "woff_run"
    eret,           \* the outcome of the call that completed last
    \* ---- what the call made last did (False and empty unless it was a trigger)
    skip,           \* the local skip of trigger, at its end
    preLog,         \* the callbacks whose pre_trigger it invoked, in order
    postLog,        \* the callbacks whose post_trigger it invoked, in order
    \* ---- observer (history only)
    lostTrig        \* the last trigger call was made while no task was waiting

evVars == <<m_event, num_waiters, on, trigger_time, trigger_data, callbacks,
            value_changed, now, epc, eret, skip, preLog, postLog, lostTrig>>

VARIABLES
    \* ---- uvm_pool.py: the registry instances and the class attributes
    pools,          \* the registry instances made so far, in order of creation:
                    \* [cls, T, Constructor, keys, item, ptr]; keys and item are
                    \* the OrderedDict self.pool
    heap,           \* the elements constructed so far: the class that built each,
                    \* its name argument, and the registry and key it was built for
    UVMPool_m_global_pool,              \* UVMPool.m_global_pool
    UVMObjectStringPool_m_global_pool,  \* UVMObjectStringPool.m_global_pool
    pret,           \* what the call made last returned
    \* ---- observer (history only)
    got             \* every <<registry, key, value returned>> of the get calls so far

poolVars == <<pools, heap, UVMPool_m_global_pool, UVMObjectStringPool_m_global_pool,
              pret, got>>

VARIABLES
    \* ---- uvm_simple_lock_dap: the object's fields
    m_locked,       \* uvm_simple_lock_dap.m_locked
    m_value,        \* uvm_simple_lock_dap.m_value
    \* ---- what the callers of the data holder see
    dret,           \* what the call made last returned
    reported,       \* the number of uvm_error reports issued by set
    \* ---- observers (history only; no action reads them in a guard)
    dcall,          \* the call made last ("new" after construction)
    lastSet,        \* the argument of the last set called while unlocked
    prelock,        \* the stored value when the holder went from unlocked to locked
    dmon            \* follows the scenario "set, lock, set, unlock, set, get"

dapVars == <<m_locked, m_value, dret, reported, dcall, lastSet, prelock, dmon>>

VARIABLES
    \* ---- the component tree and the fields of each component that
    \* UVMTopdownPhase.traverse reads or writes
    children,           \* the children of each component, in insertion order
    comp_domain,        \* comp.get_domain()
    m_build_done,       \* comp.m_build_done
    m_phase_imps,       \* comp.m_phase_imps: the phases the component overrides
    m_current_phase,    \* comp.m_current_phase
    m_phasing_active,   \* comp.m_phasing_active
    \* ---- what the traversal called last did
    tcall,              \* its arguments: [phase, state]
    tlog,               \* the calls it made on components, in order
    tvisited,           \* the components it was called on, in order
    tfatal,             \* the PH_BADEXEC reports it issued
    \* ---- observer (history only; no action reads it in a guard)
    opened,             \* the <<phase, component>> pairs with a phase_started
                        \* delivered and no phase_ended since
    closed              \* the pairs of opened that the last traversal delivered
                        \* phase_ended to

compVars == <<children, comp_domain, m_build_done, m_phase_imps, m_current_phase,
              m_phasing_active, tcall, tlog, tvisited, tfatal, opened, closed>>

VARIABLES
    \* ---- the phase graph and its scheduler
    m_state,            \* the state of each phase node
    m_jump_phase,       \* the target of the jump in flight, or None
    objectors,          \* the components holding an open objection on the
                        \* node that is in READY_TO_END
    raised,             \* the last poll of READY_TO_END raised an objection
    m_ready_to_end_count,   \* the extension rounds the node has spent
    pfatal,             \* a fatal report was issued: the run is aborted
    jumps,              \* the jump requests made so far
    \* ---- observer (history only; no action reads it in a guard)
    owed                \* after a jump: its target and the interrupted node,
                        \* until the target has executed again

phaseVars == <<m_state, m_jump_phase, objectors, raised, m_ready_to_end_count,
               pfatal, jumps, owed>>

VARIABLES
    \* ---- UVMEventBase: the fields that set() and wait() use
    m_waiters,      \* UVMEventBase.m_waiters
    on_event        \* UVMEventBase.on_event.fired

waitVars == <<m_waiters, on_event>>

vars == <<semVars, evVars, poolVars, dapVars, compVars, phaseVars, waitVars>>

\* what the calls of one part of the model leave alone
outsideSem == <<evVars, poolVars, dapVars, compVars, phaseVars, waitVars>>
outsideEvent == <<semVars, poolVars, dapVars, compVars, phaseVars, waitVars>>
outsidePool == <<semVars, evVars, dapVars, compVars, phaseVars, waitVars>>
outsideDap == <<semVars, evVars, poolVars, compVars, phaseVars, waitVars>>
outsideComp == <<semVars, evVars, poolVars, dapVars, phaseVars, waitVars>>
outsidePhase == <<semVars, evVars, poolVars, dapVars, waitVars>>

(***************************************************************************)
(* cocotb.triggers.Lock, as sv.semaphore uses it (sv.py:323,335,344).      *)
(* acquire: a free lock is taken at once and the caller is rescheduled;    *)
(* a held lock queues the caller.  release: the lock is freed, or handed   *)
(* to the first queued caller, which is then rescheduled.                  *)
(***************************************************************************)
LockAcquire(l, t) ==
    IF ~l.locked
    THEN [locked |-> TRUE, pending |-> l.pending]
    ELSE [locked |-> TRUE, pending |-> Append(l.pending, t)]

LockRelease(l) ==
    IF l.pending = <<>>
    THEN [locked |-> FALSE, pending |-> <<>>]
    ELSE [locked |-> TRUE, pending |-> Tail(l.pending)]

(***************************************************************************)
(* The observer of the scenario of sequential get(1) calls on a fresh      *)
(* gate.  st: "seq" (k sequential get(1) calls have completed, none is in  *)
(* progress), "inget" (one of the first max_count calls is in progress),   *)
(* "extra" (the further get(1) is in progress, no put yet), "put" (put(1)  *)
(* was called after it), "done" (the further get completed after the put), *)
(* "early" (it completed before any put), "off" (another run).             *)
(***************************************************************************)
MonOff == [st |-> "off", k |-> 0, who |-> 0]

MonOnCall(m, t, o, n) ==
    IF m.st = "seq" /\ o = "get" /\ n = 1
    THEN IF m.k < max_count
         THEN [st |-> "inget", k |-> m.k, who |-> t]
         ELSE [st |-> "extra", k |-> m.k, who |-> t]
    ELSE IF m.st = "extra" /\ o = "put" /\ n = 1 /\ t # m.who
    THEN [st |-> "put", k |-> m.k, who |-> m.who]
    ELSE MonOff

MonOnRet(m, t) ==
    IF m.who # t THEN m
    ELSE IF m.st = "inget" THEN [st |-> "seq", k |-> m.k + 1, who |-> 0]
    ELSE IF m.st = "extra" THEN [st |-> "early", k |-> m.k, who |-> t]
    ELSE IF m.st = "put" THEN [st |-> "done", k |-> m.k, who |-> t]
    ELSE m

(***************************************************************************)
(* semaphore.__init__ (sv.py:320-324), for each capacity 1..MaxCap.        *)
(***************************************************************************)
SemInit ==
    /\ max_count \in 1..MaxCap
    /\ count = max_count
    /\ locked = FALSE
    /\ lock = [locked |-> FALSE, pending |-> <<>>]
    /\ spc = [t \in Tasks |-> "idle"]
    /\ sarg = [t \in Tasks |-> 0]
    /\ sret = "none"
    /\ argsOk = TRUE
    /\ mon = [st |-> "seq", k |-> 0, who |-> 0]

\* a task starts a call: it is between calls, and the observer notes the argument
SemCall(t, n) ==
    /\ spc[t] = "idle"
    /\ argsOk' = (argsOk /\ n <= max_count)

(***************************************************************************)
(* semaphore.get (sv.py:327-337), up to its await.                         *)
(***************************************************************************)
get(t, n) ==
    /\ SemCall(t, n)
    /\ count >= -MaxDebt
    /\ IF count > n
       THEN \* sv.py:328-330: deduct, then await Timer(0)
            /\ count' = count - n
            /\ spc' = [spc EXCEPT ![t] = "timer0"]
            /\ sarg' = [sarg EXCEPT ![t] = n]
            /\ mon' = MonOnCall(mon, t, "get", n)
            /\ UNCHANGED <<lock, sret>>
       ELSE IF n > max_count
       THEN \* sv.py:331-333: raise
            /\ sret' = "error"
            /\ mon' = MonOff
            /\ UNCHANGED <<count, lock, spc, sarg>>
       ELSE \* sv.py:335: await self.lock.acquire()
            /\ lock' = LockAcquire(lock, t)
            /\ spc' = [spc EXCEPT ![t] = IF lock.locked THEN "waitlock" ELSE "granted"]
            /\ sarg' = [sarg EXCEPT ![t] = n]
            /\ mon' = MonOnCall(mon, t, "get", n)
            /\ UNCHANGED <<count, sret>>
    /\ UNCHANGED <<max_count, locked>>
    /\ UNCHANGED outsideSem

\* sv.py:330: the task resumes from Timer(0) and get returns
get_resume_timer(t) ==
    /\ spc[t] = "timer0"
    /\ spc' = [spc EXCEPT ![t] = "idle"]
    /\ sarg' = [sarg EXCEPT ![t] = 0]
    /\ sret' = "ok"
    /\ mon' = MonOnRet(mon, t)
    /\ UNCHANGED <<max_count, count, locked, lock, argsOk>>
    /\ UNCHANGED outsideSem

\* sv.py:336-337: the task resumes holding the lock, deducts and returns
get_resume_acquire(t) ==
    /\ spc[t] = "granted"
    /\ locked' = TRUE
    /\ count' = count - sarg[t]
    /\ spc' = [spc EXCEPT ![t] = "idle"]
    /\ sarg' = [sarg EXCEPT ![t] = 0]
    /\ sret' = "ok"
    /\ mon' = MonOnRet(mon, t)
    /\ UNCHANGED <<max_count, lock, argsOk>>
    /\ UNCHANGED outsideSem

\* put as it would be with the release of the lock forgotten
put_no_release(t, n) ==
    /\ SemCall(t, n)
    /\ sret' = "ok"
    /\ mon' = MonOnCall(mon, t, "put", n)
    /\ IF count < max_count
       THEN /\ count' = count + n
            /\ IF locked = TRUE
               THEN /\ locked' = FALSE
                    /\ UNCHANGED <<lock, spc>>
               ELSE UNCHANGED <<locked, lock, spc>>
       ELSE UNCHANGED <<count, locked, lock, spc>>
    /\ UNCHANGED <<max_count, sarg>>
    /\ UNCHANGED outsideSem

(***************************************************************************)
(* semaphore.put (sv.py:339-344).  lock.release() hands the lock to the    *)
(* first queued task, which becomes runnable.                              *)
(***************************************************************************)
put(t, n) ==
    /\ SemCall(t, n)
    /\ sret' = "ok"
    /\ mon' = MonOnCall(mon, t, "put", n)
    /\ IF count < max_count
       THEN /\ count' = count + n
            /\ IF locked = TRUE
               THEN /\ locked' = FALSE
                    /\ lock' = LockRelease(lock)
                    /\ spc' = IF lock.pending = <<>> THEN spc
                              ELSE [spc EXCEPT ![Head(lock.pending)] = "granted"]
               ELSE UNCHANGED <<locked, lock, spc>>
       ELSE UNCHANGED <<count, locked, lock, spc>>
    /\ UNCHANGED <<max_count, sarg>>
    /\ UNCHANGED outsideSem

\* try_get as it would be with get's strict comparison
try_get_strict(t, n) ==
    /\ SemCall(t, n)
    /\ mon' = MonOff
    /\ IF count > n
       THEN /\ count' = count - n
            /\ sret' = "true"
       ELSE /\ sret' = "false"
            /\ UNCHANGED count
    /\ UNCHANGED <<max_count, locked, lock, spc, sarg>>
    /\ UNCHANGED outsideSem

(***************************************************************************)
(* semaphore.try_get (sv.py:346-350).                                      *)
(***************************************************************************)
try_get(t, n) ==
    /\ SemCall(t, n)
    /\ mon' = MonOff
    /\ IF count >= n
       THEN /\ count' = count - n
            /\ sret' = "true"
       ELSE /\ sret' = "false"
            /\ UNCHANGED count
    /\ UNCHANGED <<max_count, locked, lock, spc, sarg>>
    /\ UNCHANGED outsideSem

(***************************************************************************)
(* Python values of the local skip in UVMEvent.trigger: a bool or an int.  *)
(* False + x is an int in Python, and an int is never the object False.    *)
(***************************************************************************)
PyBool(b) == [tag |-> "bool", val |-> IF b THEN 1 ELSE 0]

\* uvm_event.py:362: skip + tmp.pre_trigger(self, data)
PyAdd(a, b) == [tag |-> "int", val |-> a.val + b.val]

\* the test of uvm_event.py:363 as it would be written "skip is not True"
IsNotPyTrue(x) == ~(x.tag = "bool" /\ x.val = 1)

\* uvm_event.py:363: skip is False
IsPyFalse(x) == x.tag = "bool" /\ x.val = 0

(***************************************************************************)
(* cocotb.triggers.Event, as UVMEventBase uses m_event: set() marks it     *)
(* fired and reschedules every task waiting on it; wait() on a fired event *)
(* reschedules the caller at once (a NullTrigger); clear() unmarks it.     *)
(***************************************************************************)
\* the tasks waiting on the current m_event
Pending == {t \in Tasks : epc[t] \in {"wt_wait", "wp_wait"}}

\* m_event.set(): every waiting task becomes runnable
Woken(pc) ==
    [t \in Tasks |-> IF pc[t] = "wt_wait" THEN "wt_run"
                     ELSE IF pc[t] = "wp_wait" THEN "wp_run"
                     ELSE pc[t]]

\* self.m_event = Event(): the tasks still waiting on the old object stay there
Orphaned(pc) ==
    [t \in Tasks |-> IF pc[t] \in {"wt_wait", "wp_wait"} THEN "orphan" ELSE pc[t]]

\* set_value without line 67: nobody is told that the value changed
ValueChangedNotSet(pc) == pc

\* uvm_event.py:67, self.m_value_changed_event.set(): every task waiting on it
\* (inside sv.wait, sv.py:382) becomes runnable
ValueChangedSet(pc) ==
    [t \in Tasks |-> IF pc[t] = "won_wait" THEN "won_run"
                     ELSE IF pc[t] = "woff_wait" THEN "woff_run"
                     ELSE pc[t]]

\* the tasks that resume in the current instant: woken by an Event, or behind a
\* zero-delay Timer
Runnable == {t \in Tasks : epc[t] \in {"wt_run", "wp_run", "won_run", "woff_run",
                                       "won_t2", "won_t1", "woff_t1"}}

(***************************************************************************)
(* UVMEventBase.__init__ (uvm_event.py:47-62), UVMEvent.__init__ (301-312) *)
(***************************************************************************)
EvInit ==
    /\ m_event = [fired |-> FALSE, data |-> None]
    /\ num_waiters = 0
    /\ on = FALSE
    /\ trigger_time = 0
    /\ trigger_data = None
    /\ callbacks = <<>>
    /\ value_changed = FALSE
    /\ now = 0
    /\ epc = [t \in Tasks |-> "idle"]
    /\ eret = "ok"
    /\ skip = PyBool(FALSE)
    /\ preLog = <<>>
    /\ postLog = <<>>
    /\ lostTrig = FALSE
    /\ m_waiters = 0
    /\ on_event = FALSE

\* a call other than trigger: it invokes no callback, and has no local skip
NoCallbackRan ==
    /\ skip' = PyBool(FALSE)
    /\ preLog' = <<>>
    /\ postLog' = <<>>

(***************************************************************************)
(* UVMEventBase.wait_trigger (uvm_event.py:140-155), up to its await.      *)
(***************************************************************************)
wait_trigger(t) ==
    /\ epc[t] = "idle"
    /\ num_waiters' = num_waiters + 1
    /\ epc' = [epc EXCEPT ![t] = IF m_event.fired THEN "wt_run" ELSE "wt_wait"]
    /\ UNCHANGED <<m_event, on, trigger_time, trigger_data, callbacks, value_changed,
                   now, eret, lostTrig>>
    /\ NoCallbackRan
    /\ UNCHANGED outsideEvent

\* uvm_event.py:155: the task resumes, clears the current m_event and returns
wait_trigger_resume(t) ==
    /\ epc[t] = "wt_run"
    /\ m_event' = [m_event EXCEPT !.fired = FALSE]
    /\ epc' = [epc EXCEPT ![t] = "idle"]
    /\ eret' = "ok"
    /\ UNCHANGED <<num_waiters, on, trigger_time, trigger_data, callbacks,
                   value_changed, now, lostTrig>>
    /\ NoCallbackRan
    /\ UNCHANGED outsideEvent

(***************************************************************************)
(* UVMEventBase.wait_ptrigger (uvm_event.py:158-171), up to its await.     *)
(***************************************************************************)
wait_ptrigger(t) ==
    /\ epc[t] = "idle"
    /\ IF m_event.fired
       THEN \* uvm_event.py:167-168
            /\ eret' = "ok"
            /\ UNCHANGED <<num_waiters, epc>>
       ELSE /\ num_waiters' = num_waiters + 1
            /\ epc' = [epc EXCEPT ![t] = "wp_wait"]
            /\ UNCHANGED eret
    /\ UNCHANGED <<m_event, on, trigger_time, trigger_data, callbacks, value_changed,
                   now, lostTrig>>
    /\ NoCallbackRan
    /\ UNCHANGED outsideEvent

\* uvm_event.py:171: the task resumes, clears the current m_event and returns
wait_ptrigger_resume(t) ==
    /\ epc[t] = "wp_run"
    /\ m_event' = [m_event EXCEPT !.fired = FALSE]
    /\ epc' = [epc EXCEPT ![t] = "idle"]
    /\ eret' = "ok"
    /\ UNCHANGED <<num_waiters, on, trigger_time, trigger_data, callbacks,
                   value_changed, now, lostTrig>>
    /\ NoCallbackRan
    /\ UNCHANGED outsideEvent

(***************************************************************************)
(* sv.wait(cond, ev) (sv.py:374-383), one turn of its loop: the pc of the  *)
(* caller after the test of cond and, when it fails, the await ev.wait()   *)
(* on an Event whose fired flag is `fired`.                                *)
(***************************************************************************)
wait(cond, fired, runpc, waitpc) ==
    IF cond THEN "idle"
    ELSE IF fired THEN runpc
    ELSE waitpc

(***************************************************************************)
(* UVMEventBase.wait_on (uvm_event.py:85-113), up to its first await.      *)
(***************************************************************************)
wait_on(t, delta) ==
    /\ epc[t] = "idle"
    /\ IF on = TRUE
       THEN \* uvm_event.py:106-111: Timer(0) twice with delta, once without
            /\ epc' = [epc EXCEPT ![t] = IF delta = TRUE THEN "won_t2" ELSE "won_t1"]
            /\ UNCHANGED num_waiters
       ELSE \* uvm_event.py:112-113
            /\ num_waiters' = num_waiters + 1
            /\ epc' = [epc EXCEPT ![t] = wait(on = TRUE, value_changed,
                                              "won_run", "won_wait")]
    /\ UNCHANGED <<m_event, on, trigger_time, trigger_data, callbacks, value_changed,
                   now, eret, lostTrig>>
    /\ NoCallbackRan
    /\ UNCHANGED outsideEvent

\* uvm_event.py:109-111: a Timer(0) of wait_on has expired
wait_on_timer(t) ==
    /\ epc[t] \in {"won_t2", "won_t1"}
    /\ epc' = [epc EXCEPT ![t] = IF epc[t] = "won_t2" THEN "won_t1" ELSE "idle"]
    /\ eret' = "ok"
    /\ UNCHANGED <<m_event, num_waiters, on, trigger_time, trigger_data, callbacks,
                   value_changed, now, lostTrig>>
    /\ NoCallbackRan
    /\ UNCHANGED outsideEvent

\* sv.py:383 and the next turn of the loop: the task resumes inside sv.wait,
\* clears m_value_changed_event and tests self.on again
wait_on_resume(t) ==
    /\ epc[t] = "won_run"
    /\ value_changed' = FALSE
    /\ epc' = [epc EXCEPT ![t] = wait(on = TRUE, FALSE, "won_run", "won_wait")]
    /\ eret' = "ok"
    /\ UNCHANGED <<m_event, num_waiters, on, trigger_time, trigger_data, callbacks,
                   now, lostTrig>>
    /\ NoCallbackRan
    /\ UNCHANGED outsideEvent

(***************************************************************************)
(* UVMEventBase.wait_off (uvm_event.py:116-137), up to its first await.    *)
(***************************************************************************)
wait_off(t, delta) ==
    /\ epc[t] = "idle"
    /\ IF on = FALSE
       THEN \* uvm_event.py:132-135
            /\ IF delta = TRUE
               THEN epc' = [epc EXCEPT ![t] = "woff_t1"] /\ UNCHANGED eret
               ELSE eret' = "ok" /\ UNCHANGED epc
            /\ UNCHANGED num_waiters
       ELSE \* uvm_event.py:136-137
            /\ num_waiters' = num_waiters + 1
            /\ epc' = [epc EXCEPT ![t] = wait(on = FALSE, value_changed,
                                              "woff_run", "woff_wait")]
            /\ UNCHANGED eret
    /\ UNCHANGED <<m_event, on, trigger_time, trigger_data, callbacks, value_changed,
                   now, lostTrig>>
    /\ NoCallbackRan
    /\ UNCHANGED outsideEvent

\* uvm_event.py:134-135: the Timer(0) of wait_off has expired
wait_off_timer(t) ==
    /\ epc[t] = "woff_t1"
    /\ epc' = [epc EXCEPT ![t] = "idle"]
    /\ eret' = "ok"
    /\ UNCHANGED <<m_event, num_waiters, on, trigger_time, trigger_data, callbacks,
                   value_changed, now, lostTrig>>
    /\ NoCallbackRan
    /\ UNCHANGED outsideEvent

\* sv.py:383 and the next turn of the loop, for the wait of wait_off
wait_off_resume(t) ==
    /\ epc[t] = "woff_run"
    /\ value_changed' = FALSE
    /\ epc' = [epc EXCEPT ![t] = wait(on = FALSE, FALSE, "woff_run", "woff_wait")]
    /\ eret' = "ok"
    /\ UNCHANGED <<m_event, num_waiters, on, trigger_time, trigger_data, callbacks,
                   now, lostTrig>>
    /\ NoCallbackRan
    /\ UNCHANGED outsideEvent

(***************************************************************************)
(* UVMEvent.trigger (uvm_event.py:346-373).  r[cb] is what pre_trigger of  *)
(* the registered callback cb returns if this call invokes it.  The loop   *)
(* of lines 359-361 only fetches the callbacks; line 362, after the loop,  *)
(* invokes pre_trigger of the one fetched last.  trigger, reset and        *)
(* add_callback are plain functions: any task that is running (not         *)
(* suspended in a wait) may call them, and they run to completion.         *)
(***************************************************************************)
\* the tasks that are running, i.e. not suspended inside a wait
Running == {t \in Tasks : epc[t] = "idle"}

\* the registered callbacks, and what their pre_trigger may return in one call
Registered == {callbacks[i] : i \in 1..Len(callbacks)}

PreReturns == [Registered -> BOOLEAN]

PreInvoked(cbs) ==
    IF Len(cbs) > 0 THEN <<cbs[Len(cbs)]>> ELSE <<>>

SkipAfterPre(cbs, r) ==
    IF Len(cbs) > 0
    THEN PyAdd(PyBool(FALSE), PyBool(r[cbs[Len(cbs)]]))
    ELSE PyBool(FALSE)

trigger(d, r) ==
    /\ Running # {}
    /\ preLog' = PreInvoked(callbacks)
    /\ skip' = SkipAfterPre(callbacks, r)
    /\ eret' = "ok"
    /\ lostTrig' = (Pending = {})
    /\ IF IsPyFalse(SkipAfterPre(callbacks, r))
       THEN /\ m_event' = [fired |-> TRUE, data |-> d]
            /\ epc' = ValueChangedSet(Woken(epc))
            /\ postLog' = callbacks
            /\ num_waiters' = 0
            /\ on' = TRUE
            /\ value_changed' = TRUE
            /\ trigger_time' = now
            /\ trigger_data' = d
       ELSE /\ postLog' = <<>>
            /\ UNCHANGED <<m_event, epc, num_waiters, on, value_changed, trigger_time,
                           trigger_data>>
    /\ UNCHANGED <<callbacks, now>>
    /\ UNCHANGED outsideEvent

\* reset without line 224 (the waiter count is kept)
reset_keeps_waiters(wakeup) ==
    /\ Running # {}
    /\ epc' = ValueChangedSet(IF wakeup THEN Woken(epc) ELSE Orphaned(epc))
    /\ m_event' = [fired |-> FALSE, data |-> None]
    /\ on' = FALSE
    /\ value_changed' = TRUE
    /\ trigger_time' = 0
    /\ eret' = "ok"
    /\ UNCHANGED <<num_waiters, trigger_data, callbacks, now, lostTrig>>
    /\ NoCallbackRan
    /\ UNCHANGED outsideEvent

(***************************************************************************)
(* UVMEventBase.reset (uvm_event.py:210-226).                              *)
(***************************************************************************)
reset(wakeup) ==
    /\ Running # {}
    /\ epc' = ValueChangedSet(IF wakeup THEN Woken(epc) ELSE Orphaned(epc))
    /\ m_event' = [fired |-> FALSE, data |-> None]
    /\ num_waiters' = 0
    /\ on' = FALSE
    /\ value_changed' = TRUE
    /\ trigger_time' = 0
    /\ eret' = "ok"
    /\ UNCHANGED <<trigger_data, callbacks, now, lostTrig>>
    /\ NoCallbackRan
    /\ UNCHANGED outsideEvent

(***************************************************************************)
(* UVMEventBase.set and UVMEventBase.wait (uvm_event.py:69-82), on the     *)
(* Event on_event.  A task inside wait is at "w_wait" (suspended on        *)
(* on_event) or at "w_run" (on_event was or has been set: the task is      *)
(* runnable and resumes at line 80).  They leave the other fields of the   *)
(* event alone.                                                            *)
(***************************************************************************)
WaitFrame ==
    /\ UNCHANGED <<m_event, num_waiters, on, trigger_time, trigger_data, callbacks,
                   value_changed, now, lostTrig>>
    /\ NoCallbackRan
    /\ UNCHANGED <<semVars, poolVars, dapVars, compVars, phaseVars>>

\* on_event.set(): every task suspended on on_event becomes runnable
WokenOn(pc) == [t \in Tasks |-> IF pc[t] = "w_wait" THEN "w_run" ELSE pc[t]]

\* UVMEventBase.set (uvm_event.py:69-71)
set ==
    /\ Running # {}
    /\ IF m_waiters > 0
       THEN /\ on_event' = TRUE
            /\ epc' = WokenOn(epc)
       ELSE UNCHANGED <<on_event, epc>>
    /\ eret' = "ok"
    /\ UNCHANGED m_waiters
    /\ WaitFrame

\* UVMEventBase.wait (uvm_event.py:74-79), up to its await
wait_call(t) ==
    /\ epc[t] = "idle"
    /\ m_waiters' = m_waiters + 1
    /\ on_event' = IF m_waiters = 0 THEN FALSE ELSE on_event
    /\ epc' = [epc EXCEPT ![t] = IF on_event' THEN "w_run" ELSE "w_wait"]
    /\ UNCHANGED eret
    /\ WaitFrame

\* uvm_event.py:80-82: the task resumes, leaves the count and returns
wait_resume(t) ==
    /\ epc[t] = "w_run"
    /\ m_waiters' = m_waiters - 1
    /\ on_event' = IF m_waiters - 1 = 0 THEN FALSE ELSE on_event
    /\ epc' = [epc EXCEPT ![t] = "idle"]
    /\ eret' = "ok"
    /\ WaitFrame

(***************************************************************************)
(* UVMEvent.add_callback (uvm_event.py:389-409).  self.callbacks is a      *)
(* UVMQueue, used here and in trigger as a list.                           *)
(***************************************************************************)
add_callback(cb, append) ==
    /\ Running # {}
    /\ IF \E i \in 1..Len(callbacks) : callbacks[i] = cb
       THEN /\ eret' = "warning"
            /\ UNCHANGED callbacks
       ELSE /\ eret' = "ok"
            /\ callbacks' = IF append THEN Append(callbacks, cb)
                            ELSE <<cb>> \o callbacks
    /\ UNCHANGED <<m_event, num_waiters, on, trigger_time, trigger_data,
                   value_changed, now, epc, lostTrig>>
    /\ NoCallbackRan
    /\ UNCHANGED outsideEvent

(***************************************************************************)
(* The accessors (uvm_event.py:173-208, 376-383): plain functions that     *)
(* return a field; eret holds Python's text of the value returned.         *)
(***************************************************************************)
PyStr(b) == IF b THEN "True" ELSE "False"

Accessor(value) ==
    /\ Running # {}
    /\ eret' = value
    /\ UNCHANGED <<m_event, num_waiters, on, trigger_time, trigger_data, callbacks,
                   value_changed, now, epc, lostTrig>>
    /\ NoCallbackRan
    /\ UNCHANGED outsideEvent

get_trigger_time == Accessor(ToString(trigger_time))

is_on == Accessor(PyStr(on))

\* is_off written with an assignment in place of the comparison of line 208
is_off_assigns ==
    /\ Running # {}
    /\ on' = FALSE
    /\ eret' = PyStr(TRUE)
    /\ UNCHANGED <<m_event, num_waiters, trigger_time, trigger_data, callbacks,
                   value_changed, now, epc, lostTrig>>
    /\ NoCallbackRan
    /\ UNCHANGED outsideEvent

is_off == Accessor(PyStr(on = FALSE))

get_trigger_data == Accessor(trigger_data)

(***************************************************************************)
(* The simulator advances the logical time once no task is runnable.       *)
(***************************************************************************)
Tick ==
    /\ now < MaxTime
    /\ Runnable = {}
    /\ now' = now + 1
    /\ UNCHANGED <<m_event, num_waiters, on, trigger_time, trigger_data, callbacks,
                   value_changed, epc, eret, skip, preLog, postLog, lostTrig>>
    /\ UNCHANGED outsideEvent

(***************************************************************************)
(* The keyed registries (uvm_pool.py).  Values are references: None, an    *)
(* element (its index in heap) or a registry (its index in pools).         *)
(***************************************************************************)
\* the keys used with the registries
Keys == {"x", "y"}

NoneRef == [kind |-> "None", id |-> 0]
ObjRef(i) == [kind |-> "obj", id |-> i]
PoolRef(i) == [kind |-> "pool", id |-> i]

\* the element classes a registry may be given as its factory
ElemTypes == {"UVMObject"}
\* the classes whose get is UVMObjectStringPool.get
StringPoolClasses == {"UVMObjectStringPool", "UVMEventPool", "UVMBarrierPool"}

\* an empty OrderedDict
EmptyItem == [k \in {} |-> NoneRef]

\* self.pool[key] = value on an OrderedDict: a new key goes to the end
SetItem(pl, key, value) ==
    [pl EXCEPT !.keys = IF key \in DOMAIN pl.item THEN pl.keys ELSE Append(pl.keys, key),
               !.item = [k \in DOMAIN pl.item \cup {key} |->
                            IF k = key THEN value ELSE pl.item[k]]]

\* no registry, no element and no global pool exists when the module is loaded
\* (uvm_pool.py:41, 236); 0 stands for the None of m_global_pool
PoolInit ==
    /\ pools = <<>>
    /\ heap = <<>>
    /\ UVMPool_m_global_pool = 0
    /\ UVMObjectStringPool_m_global_pool = 0
    /\ pret = NoneRef
    /\ got = {}

\* UVMPool.__init__ (uvm_pool.py:44-48)
UVMPool_init(T) ==
    [cls |-> "UVMPool", T |-> T, Constructor |-> None,
     keys |-> <<>>, item |-> EmptyItem, ptr |-> -1]

\* UVMObjectStringPool.__init__ (uvm_pool.py:239-250), for the class cls
UVMObjectStringPool_init(cls, Constr) ==
    [UVMPool_init(None) EXCEPT !.cls = cls, !.Constructor = Constr]

\* UVMEventPool.__init__ (uvm_pool.py:351-353)
UVMEventPool_init == UVMObjectStringPool_init("UVMEventPool", "UVMEvent")

\* UVMBarrierPool.__init__ (uvm_pool.py:357-359)
UVMBarrierPool_init == UVMObjectStringPool_init("UVMBarrierPool", "UVMBarrier")

\* UVMPool.exists (uvm_pool.py:118-119)
exists(pl, key) == key \in DOMAIN pl.item

\* UVMPool.num (uvm_pool.py:102-103)
num(pl) == Len(pl.keys)

(***************************************************************************)
(* The bodies of the get methods, on registry pl (number pid) with the     *)
(* elements hp: the registry and the elements afterwards, and the value    *)
(* returned.                                                               *)
(***************************************************************************)
\* UVMPool.get (uvm_pool.py:80-97)
UVMPool_get(pl, hp, pid, key) ==
    IF key \in DOMAIN pl.item
    THEN [pool |-> pl, heap |-> hp, ret |-> pl.item[key]]
    ELSE IF pl.T # None
    THEN LET made == Append(hp, [cls |-> pl.T, name |-> "", pool |-> pid, key |-> key])
             stored == SetItem(pl, key, ObjRef(Len(made)))
         IN  [pool |-> stored, heap |-> made, ret |-> stored.item[key]]
    ELSE [pool |-> pl, heap |-> hp, ret |-> NoneRef]

\* UVMObjectStringPool.get without the test of line 309
UVMObjectStringPool_get_always_builds(pl, hp, pid, key) ==
    LET made == Append(hp, [cls |-> pl.Constructor, name |-> key, pool |-> pid,
                            key |-> key])
        stored == SetItem(pl, key, ObjRef(Len(made)))
    IN  [pool |-> stored, heap |-> made, ret |-> stored.item[key]]

\* UVMObjectStringPool.get (uvm_pool.py:295-311)
UVMObjectStringPool_get(pl, hp, pid, key) ==
    IF key \notin DOMAIN pl.item
    THEN LET made == Append(hp, [cls |-> pl.Constructor, name |-> key, pool |-> pid,
                                 key |-> key])
             stored == SetItem(pl, key, ObjRef(Len(made)))
         IN  [pool |-> stored, heap |-> made, ret |-> stored.item[key]]
    ELSE [pool |-> pl, heap |-> hp, ret |-> pl.item[key]]

\* pl.get(key): Python picks the method by the class of pl
MethodGet(pl, hp, pid, key) ==
    IF pl.cls \in StringPoolClasses
    THEN UVMObjectStringPool_get(pl, hp, pid, key)
    ELSE UVMPool_get(pl, hp, pid, key)

(***************************************************************************)
(* The calls.                                                              *)
(***************************************************************************)
\* a registry instance rec is made
NewPool(rec) ==
    /\ Len(pools) < MaxPools
    /\ pools' = Append(pools, rec)
    /\ pret' = PoolRef(Len(pools) + 1)
    /\ UNCHANGED <<heap, UVMPool_m_global_pool, UVMObjectStringPool_m_global_pool, got>>
    /\ UNCHANGED outsidePool

\* UVMPool(name, T)
new_UVMPool(T) == NewPool(UVMPool_init(T))

\* UVMObjectStringPool(name, Constr)
new_UVMObjectStringPool(Constr) ==
    NewPool(UVMObjectStringPool_init("UVMObjectStringPool", Constr))

\* UVMEventPool(name)
new_UVMEventPool == NewPool(UVMEventPool_init)

\* UVMBarrierPool(name)
new_UVMBarrierPool == NewPool(UVMBarrierPool_init)

\* pools[p].get(key)
pool_get(p, key) ==
    LET r == MethodGet(pools[p], heap, p, key) IN
    /\ Len(r.heap) <= MaxObjs
    /\ pools' = [pools EXCEPT ![p] = r.pool]
    /\ heap' = r.heap
    /\ pret' = r.ret
    /\ got' = got \cup {<<p, key, r.ret>>}
    /\ UNCHANGED <<UVMPool_m_global_pool, UVMObjectStringPool_m_global_pool>>
    /\ UNCHANGED outsidePool

\* the registries after a get_global_pool that finds m_global_pool = g
\* (uvm_pool.py:62-64, 275-277): rec is made if there is none yet
WithGlobal(g, rec) == IF g = 0 THEN Append(pools, rec) ELSE pools

GlobalOf(g) == IF g = 0 THEN Len(pools) + 1 ELSE g

\* UVMPool.get_global_pool written without the test of line 62
UVMPool_get_global_pool_fresh ==
    /\ Len(pools) < MaxPools
    /\ pools' = Append(pools, UVMPool_init(None))
    /\ UVMPool_m_global_pool' = Len(pools) + 1
    /\ pret' = PoolRef(Len(pools) + 1)
    /\ UNCHANGED <<heap, UVMObjectStringPool_m_global_pool, got>>
    /\ UNCHANGED outsidePool

\* UVMPool.get_global_pool (uvm_pool.py:50-64)
UVMPool_get_global_pool ==
    /\ Len(WithGlobal(UVMPool_m_global_pool, UVMPool_init(None))) <= MaxPools
    /\ pools' = WithGlobal(UVMPool_m_global_pool, UVMPool_init(None))
    /\ UVMPool_m_global_pool' = GlobalOf(UVMPool_m_global_pool)
    /\ pret' = PoolRef(GlobalOf(UVMPool_m_global_pool))
    /\ UNCHANGED <<heap, UVMObjectStringPool_m_global_pool, got>>
    /\ UNCHANGED outsidePool

\* UVMPool.get_global (uvm_pool.py:66-78)
UVMPool_get_global(key) ==
    LET g == GlobalOf(UVMPool_m_global_pool)
        ps == WithGlobal(UVMPool_m_global_pool, UVMPool_init(None))
        r == MethodGet(ps[g], heap, g, key)
    IN  /\ Len(ps) <= MaxPools
        /\ Len(r.heap) <= MaxObjs
        /\ pools' = [ps EXCEPT ![g] = r.pool]
        /\ UVMPool_m_global_pool' = g
        /\ heap' = r.heap
        /\ pret' = r.ret
        /\ got' = got \cup {<<g, key, r.ret>>}
        /\ UNCHANGED UVMObjectStringPool_m_global_pool
        /\ UNCHANGED outsidePool

\* UVMObjectStringPool.get_global_pool (uvm_pool.py:264-277), called on the class
\* cls; the default Constr of the registry it makes is UVMObject (line 239)
UVMObjectStringPool_get_global_pool(cls) ==
    LET rec == UVMObjectStringPool_init("UVMObjectStringPool", "UVMObject") IN
    /\ Len(WithGlobal(UVMObjectStringPool_m_global_pool, rec)) <= MaxPools
    /\ pools' = WithGlobal(UVMObjectStringPool_m_global_pool, rec)
    /\ UVMObjectStringPool_m_global_pool' = GlobalOf(UVMObjectStringPool_m_global_pool)
    /\ pret' = PoolRef(GlobalOf(UVMObjectStringPool_m_global_pool))
    /\ UNCHANGED <<heap, UVMPool_m_global_pool, got>>
    /\ UNCHANGED outsidePool

\* UVMObjectStringPool.get_global (uvm_pool.py:280-292), called on the class cls
UVMObjectStringPool_get_global(cls, key) ==
    LET g == GlobalOf(UVMObjectStringPool_m_global_pool)
        ps == WithGlobal(UVMObjectStringPool_m_global_pool,
                         UVMObjectStringPool_init("UVMObjectStringPool", "UVMObject"))
        r == MethodGet(ps[g], heap, g, key)
    IN  /\ Len(ps) <= MaxPools
        /\ Len(r.heap) <= MaxObjs
        /\ pools' = [ps EXCEPT ![g] = r.pool]
        /\ UVMObjectStringPool_m_global_pool' = g
        /\ heap' = r.heap
        /\ pret' = r.ret
        /\ got' = got \cup {<<g, key, r.ret>>}
        /\ UNCHANGED UVMPool_m_global_pool
        /\ UNCHANGED outsidePool

(***************************************************************************)
(* The calls that edit a registry and move its cursor (uvm_pool.py:99-164, *)
(* 314-326): the registry afterwards and the outcome of the call, which is *)
(* a value returned or the exception that ended the call.                  *)
(***************************************************************************)
KeyRet(k) == [kind |-> "key", key |-> k]
FalseRet == [kind |-> "False", id |-> 0]
IndexError == [kind |-> "IndexError", id |-> 0]
RecursionError == [kind |-> "RecursionError", id |-> 0]
\* the call returned None after uvm_warning("POOLDEL", ...)
WarnedPOOLDEL == [kind |-> "uvm_warning POOLDEL", id |-> 0]

\* list(self.pool.keys())[i]: the key at index i (from 0), or IndexError
KeyAt(pl, i) == IF i >= 0 /\ i < Len(pl.keys) THEN KeyRet(pl.keys[i + 1]) ELSE IndexError

\* UVMPool.add (uvm_pool.py:99-100)
UVMPool_add(pl, key, item) == [pool |-> SetItem(pl, key, item), ret |-> NoneRef]

\* del self.pool[key]
DelItem(pl, key) ==
    [pl EXCEPT !.keys = SelectSeq(@, LAMBDA k : k # key),
               !.item = [k \in DOMAIN pl.item \ {key} |-> pl.item[k]]]

\* UVMPool.delete (uvm_pool.py:111-116); key None empties the registry
UVMPool_delete(pl, key) ==
    IF key = None
    THEN [pool |-> [pl EXCEPT !.keys = <<>>, !.item = EmptyItem], ret |-> NoneRef]
    ELSE IF key \in DOMAIN pl.item
    THEN [pool |-> DelItem(pl, key), ret |-> NoneRef]
    ELSE [pool |-> pl, ret |-> NoneRef]

\* UVMObjectStringPool.delete (uvm_pool.py:314-326).  self.delete(key) at line
\* 325 is this method again (Python finds delete in the class of self before
\* the base class), with the same key still present: the calls nest until the
\* interpreter's recursion limit ends them with RecursionError.
UVMObjectStringPool_delete(pl, key) ==
    IF ~exists(pl, key)
    THEN [pool |-> pl, ret |-> WarnedPOOLDEL]
    ELSE [pool |-> pl, ret |-> RecursionError]

\* pl.delete(key): Python picks the method by the class of pl
MethodDelete(pl, key) ==
    IF pl.cls \in StringPoolClasses
    THEN UVMObjectStringPool_delete(pl, key)
    ELSE UVMPool_delete(pl, key)

\* UVMPool.last (uvm_pool.py:121-127)
UVMPool_last(pl) ==
    IF Len(pl.keys) > 0
    THEN [pool |-> [pl EXCEPT !.ptr = num(pl) - 1], ret |-> KeyRet(pl.keys[Len(pl.keys)])]
    ELSE [pool |-> pl, ret |-> FalseRet]

\* UVMPool.first (uvm_pool.py:135-140)
UVMPool_first(pl) ==
    IF Len(pl.keys) > 0
    THEN [pool |-> [pl EXCEPT !.ptr = 0], ret |-> KeyRet(pl.keys[1])]
    ELSE [pool |-> pl, ret |-> FalseRet]

\* UVMPool.has_next (uvm_pool.py:142-145)
has_next(pl) == pl.ptr < num(pl) - 1

\* UVMPool.next (uvm_pool.py:147-152)
UVMPool_next(pl) ==
    IF has_next(pl)
    THEN [pool |-> [pl EXCEPT !.ptr = @ + 1], ret |-> KeyAt(pl, pl.ptr + 1)]
    ELSE [pool |-> pl, ret |-> NoneRef]

\* UVMPool.has_prev (uvm_pool.py:154-157)
has_prev(pl) == pl.ptr > 0

\* UVMPool.prev (uvm_pool.py:159-164)
UVMPool_prev(pl) ==
    IF has_prev(pl)
    THEN [pool |-> [pl EXCEPT !.ptr = @ - 1], ret |-> KeyAt(pl, pl.ptr - 1)]
    ELSE [pool |-> pl, ret |-> NoneRef]

\* a call on pools[p] that builds nothing: r is what it does to the registry
\* and how it ends
PoolCall(p, r) ==
    /\ pools' = [pools EXCEPT ![p] = r.pool]
    /\ pret' = r.ret
    /\ UNCHANGED <<heap, UVMPool_m_global_pool, UVMObjectStringPool_m_global_pool, got>>
    /\ UNCHANGED outsidePool

\* add(key, None): the item added is no element
pool_add(p, key) == PoolCall(p, UVMPool_add(pools[p], key, NoneRef))
pool_delete(p, key) == PoolCall(p, MethodDelete(pools[p], key))
pool_first(p) == PoolCall(p, UVMPool_first(pools[p]))
pool_last(p) == PoolCall(p, UVMPool_last(pools[p]))
pool_next(p) == PoolCall(p, UVMPool_next(pools[p]))
pool_prev(p) == PoolCall(p, UVMPool_prev(pools[p]))

(***************************************************************************)
(* uvm_simple_lock_dap (src/src/uvm/dap/uvm_simple_lock_dap.py): a value    *)
(* and a lock flag.  None of its methods awaits, so each call is one step.  *)
(***************************************************************************)
\* the values a caller passes to set
DapValues == {"v1", "v2"}

\* the observer of the scenario: set(a), lock(), set(b), an optional get(),
\* unlock(), set(c), get().  st: "new", "set" (after set(a)), "locked",
\* "refused" (after set(b), b # a), "checked" (after the optional get()),
\* "unlocked", "reset" (after set(c)), "done" (after the last get()), "off"
\* (another run).
DapMon(op, arg) ==
    CASE dmon.st = "new" /\ op = "set" -> [st |-> "set", a |-> arg, c |-> None]
      [] dmon.st = "set" /\ op = "lock" -> [dmon EXCEPT !.st = "locked"]
      [] dmon.st = "locked" /\ op = "set" /\ arg # dmon.a -> [dmon EXCEPT !.st = "refused"]
      [] dmon.st = "refused" /\ op = "get" -> [dmon EXCEPT !.st = "checked"]
      [] dmon.st \in {"refused", "checked"} /\ op = "unlock" -> [dmon EXCEPT !.st = "unlocked"]
      [] dmon.st = "unlocked" /\ op = "set" -> [dmon EXCEPT !.st = "reset", !.c = arg]
      [] dmon.st = "reset" /\ op = "get" -> [dmon EXCEPT !.st = "done"]
      [] OTHER -> [st |-> "off", a |-> None, c |-> None]

\* uvm_simple_lock_dap.__init__ (uvm_simple_lock_dap.py:50-53)
DapInit ==
    /\ m_locked = FALSE
    /\ m_value = None
    /\ dret = None
    /\ reported = 0
    /\ dcall = "new"
    /\ lastSet = None
    /\ prelock = None
    /\ dmon = [st |-> "new", a |-> None, c |-> None]

\* set with the test of the lock flag left out
uvm_simple_lock_dap_set_unguarded(value) ==
    /\ m_value' = value
    /\ dret' = None
    /\ dcall' = "set"
    /\ lastSet' = IF m_locked THEN lastSet ELSE value
    /\ dmon' = DapMon("set", value)
    /\ UNCHANGED <<m_locked, reported, prelock>>
    /\ UNCHANGED outsideDap

\* uvm_simple_lock_dap.set (uvm_simple_lock_dap.py:62-66)
uvm_simple_lock_dap_set(value) ==
    /\ m_locked => reported < MaxReports
    /\ IF m_locked
         THEN /\ reported' = reported + 1
              /\ UNCHANGED m_value
         ELSE /\ m_value' = value
              /\ UNCHANGED reported
    /\ dret' = None
    /\ dcall' = "set"
    /\ lastSet' = IF m_locked THEN lastSet ELSE value
    /\ dmon' = DapMon("set", value)
    /\ UNCHANGED <<m_locked, prelock>>
    /\ UNCHANGED outsideDap

\* uvm_simple_lock_dap.get (uvm_simple_lock_dap.py:88-89)
uvm_simple_lock_dap_get ==
    /\ dret' = m_value
    /\ dcall' = "get"
    /\ dmon' = DapMon("get", None)
    /\ UNCHANGED <<m_locked, m_value, reported, lastSet, prelock>>
    /\ UNCHANGED outsideDap

\* uvm_simple_lock_dap.lock (uvm_simple_lock_dap.py:107-108)
uvm_simple_lock_dap_lock ==
    /\ m_locked' = TRUE
    /\ dret' = None
    /\ dcall' = "lock"
    /\ prelock' = IF m_locked THEN prelock ELSE m_value
    /\ dmon' = DapMon("lock", None)
    /\ UNCHANGED <<m_value, reported, lastSet>>
    /\ UNCHANGED outsideDap

\* unlock leaving the flag as it is
uvm_simple_lock_dap_unlock_noop ==
    /\ dret' = None
    /\ dcall' = "unlock"
    /\ dmon' = DapMon("unlock", None)
    /\ UNCHANGED <<m_locked, m_value, reported, lastSet, prelock>>
    /\ UNCHANGED outsideDap

\* uvm_simple_lock_dap.unlock (uvm_simple_lock_dap.py:113-114)
uvm_simple_lock_dap_unlock ==
    /\ m_locked' = FALSE
    /\ dret' = None
    /\ dcall' = "unlock"
    /\ dmon' = DapMon("unlock", None)
    /\ UNCHANGED <<m_value, reported, lastSet, prelock>>
    /\ UNCHANGED outsideDap

\* uvm_simple_lock_dap.is_locked (uvm_simple_lock_dap.py:123-124)
uvm_simple_lock_dap_is_locked ==
    /\ dret' = PyStr(m_locked)
    /\ dcall' = "is_locked"
    /\ dmon' = DapMon("is_locked", None)
    /\ UNCHANGED <<m_locked, m_value, reported, lastSet, prelock>>
    /\ UNCHANGED outsideDap

(***************************************************************************)
(* The component tree.  A component owns an ordered sequence of children;   *)
(* has_first_child / get_first_child / get_next_child walk it in insertion  *)
(* order.  The root is component 1.                                         *)
(***************************************************************************)
Comps == 1..NumComps
Root == 1

\* the sequences of distinct components other than the root
ChildSeqs ==
    {q \in UNION {[1..n -> Comps \ {Root}] : n \in 0..(NumComps - 1)} :
        \A i, j \in DOMAIN q : i # j => q[i] # q[j]}

\* the component whose children include k
ParentOf(ch, k) == CHOOSE p \in Comps : \E i \in DOMAIN ch[p] : ch[p][i] = k

RECURSIVE UnderRoot(_, _, _)
\* following parents from k reaches the root within n steps
UnderRoot(ch, k, n) ==
    IF k = Root THEN TRUE
    ELSE IF n = 0 THEN FALSE
    ELSE UnderRoot(ch, ParentOf(ch, k), n - 1)

\* ch is a tree over all the components: every component other than the root is
\* the child of exactly one component, once, and hangs under the root
IsTree(ch) ==
    /\ \A k \in Comps \ {Root} :
         Cardinality({<<p, i>> \in Comps \X (1..NumComps) :
                         i \in DOMAIN ch[p] /\ ch[p][i] = k}) = 1
    /\ \A k \in Comps : UnderRoot(ch, k, NumComps)

Trees == {ch \in [Comps -> ChildSeqs] : IsTree(ch)}

(***************************************************************************)
(* Phase nodes, as traverse sees them: phase.get_name() and                 *)
(* phase.get_domain().  The implementation object self of a node has the    *)
(* node's name (self.get_name()).                                           *)
(***************************************************************************)
Domains == {"common", "d1"}
\* UVMDomain.get_common_domain()
get_common_domain == "common"
PhaseNodes == {"common.build", "common.final", "d1.build"}
get_name(phase) ==
    CASE phase = "common.build" -> "build"
      [] phase = "common.final" -> "final"
      [] phase = "d1.build" -> "build"
get_domain(phase) ==
    CASE phase = "common.build" -> "common"
      [] phase = "common.final" -> "common"
      [] phase = "d1.build" -> "d1"

\* the states traverse can be called with: the four that visit components,
\* and one that does not
UVM_PHASE_STARTED == "STARTED"
UVM_PHASE_EXECUTING == "EXECUTING"
UVM_PHASE_READY_TO_END == "READY_TO_END"
UVM_PHASE_ENDED == "ENDED"
UVM_PHASE_CLEANUP == "CLEANUP"
TraverseStates == {UVM_PHASE_STARTED, UVM_PHASE_EXECUTING, UVM_PHASE_READY_TO_END,
                   UVM_PHASE_ENDED, UVM_PHASE_CLEANUP}

\* f marks at most one component
AtMostOne(f) == Cardinality({c \in Comps : f[c]}) <= 1

\* the tree and the components before any traversal: any tree; at most one
\* component in the domain d1, at most one marked build-done and at most one
\* with an override, of one phase name
CompInit ==
    /\ children \in Trees
    /\ comp_domain \in {d \in [Comps -> Domains] : AtMostOne([c \in Comps |-> d[c] = "d1"])}
    /\ m_build_done \in {b \in [Comps -> BOOLEAN] : AtMostOne(b)}
    /\ m_phase_imps \in {m \in [Comps -> {{}, {"build"}, {"final"}}] :
                            AtMostOne([c \in Comps |-> m[c] # {}])}
    /\ m_current_phase = [c \in Comps |-> None]
    /\ m_phasing_active = [c \in Comps |-> 0]
    /\ tcall = [phase |-> None, state |-> None]
    /\ tlog = <<>>
    /\ tvisited = <<>>
    /\ tfatal = 0
    /\ opened = {}
    /\ closed = {}

(***************************************************************************)
(* UVMTopdownPhase.traverse (uvm_topdown_phase.py:55-108).  It does not     *)
(* await: one call runs to its end.  acc is the state the call works on:    *)
(* cur (m_current_phase of each component), active (m_phasing_active), log  *)
(* (the calls made on components so far), visited, fatal.  A logged call    *)
(* records the component, what ran (by: the node's own implementation or    *)
(* the component's override) and the component's m_current_phase and        *)
(* m_phasing_active when it was made.  Call binds acc once (a \in {acc}),    *)
(* so that a chain of calls is evaluated once.                              *)
(***************************************************************************)
Call(acc, ev, comp, by) ==
    CHOOSE r \in {[a EXCEPT !.log = Append(@, [ev |-> ev, comp |-> comp, by |-> by,
                                               cur |-> a.cur[comp],
                                               active |-> a.active[comp]])] :
                     a \in {acc}} : TRUE

\* UVMTopdownPhase.execute (uvm_topdown_phase.py:110-125), run by ph; the
\* action of a component of acc.fails raises, and the exception is in flight
\* (acc.exc) from then on
execute(acc, ph, comp, phase) ==
    LET a1 == Call([acc EXCEPT !.cur[comp] = phase], "exec_func", comp, ph)
    IN  IF comp \in acc.fails THEN [a1 EXCEPT !.exc = TRUE] ELSE a1

\* the EXECUTING branch skipping a build-done component whatever the phase
executing_skips_any_phase(acc, comp, phase) ==
    IF ~m_build_done[comp]
      THEN LET a1 == [acc EXCEPT !.active[comp] = @ + 1]
               ph == IF get_name(phase) \in m_phase_imps[comp]
                       THEN "override" ELSE "self"
               a2 == execute(a1, ph, comp, phase)
           IN  [a2 EXCEPT !.active[comp] = @ - 1]
      ELSE acc

\* the EXECUTING branch with the override table not consulted
executing_ignores_override(acc, comp, phase) ==
    IF ~(get_name(phase) = "build" /\ m_build_done[comp])
      THEN LET a1 == [acc EXCEPT !.active[comp] = @ + 1]
               a2 == execute(a1, "self", comp, phase)
           IN  [a2 EXCEPT !.active[comp] = @ - 1]
      ELSE acc

\* the EXECUTING branch (uvm_topdown_phase.py:88-95): line 95 is not reached
\* when ph.execute raises
executing(acc, comp, phase) ==
    IF ~(get_name(phase) = "build" /\ m_build_done[comp])
      THEN LET a1 == [acc EXCEPT !.active[comp] = @ + 1]
               ph == IF get_name(phase) \in m_phase_imps[comp]
                       THEN "override" ELSE "self"
               a2 == execute(a1, ph, comp, phase)
           IN  IF a2.exc THEN a2 ELSE [a2 EXCEPT !.active[comp] = @ - 1]
      ELSE acc

\* the ENDED branch with the marker left as it is
ended_keeps_marker(acc, comp, phase) ==
    Call(acc, "phase_ended", comp, "self")

\* the ENDED branch (uvm_topdown_phase.py:98-100)
ended(acc, comp, phase) ==
    LET a1 == Call(acc, "phase_ended", comp, "self")
    IN  [a1 EXCEPT !.cur[comp] = None]

\* the branches on state (uvm_topdown_phase.py:84-102), for a component the
\* phase applies to
visit(acc, comp, phase, state) ==
    CASE state = UVM_PHASE_STARTED ->
           LET a1 == [acc EXCEPT !.cur[comp] = phase]
               a2 == Call(a1, "m_apply_verbosity_settings", comp, "self")
           IN  Call(a2, "phase_started", comp, "self")
      [] state = UVM_PHASE_EXECUTING -> executing(acc, comp, phase)
      [] state = UVM_PHASE_READY_TO_END -> Call(acc, "phase_ready_to_end", comp, "self")
      [] state = UVM_PHASE_ENDED -> ended(acc, comp, phase)
      [] OTHER -> [acc EXCEPT !.fatal = @ + 1]

\* the test of the domains passing for the phases of the common domain only
InDomain_common_only(comp, phase) ==
    get_domain(phase) = get_common_domain

\* the test of the domains (uvm_topdown_phase.py:83)
InDomain(comp, phase) ==
    get_domain(phase) = get_common_domain \/ get_domain(phase) = comp_domain[comp]

RECURSIVE traverse(_, _, _, _)
RECURSIVE traverse_children(_, _, _, _, _)

\* the loop over the children (uvm_topdown_phase.py:104-108), from the i-th;
\* an exception in flight leaves it
traverse_children(acc, comp, i, phase, state) ==
    IF i > Len(children[comp]) \/ acc.exc THEN acc
    ELSE traverse_children(traverse(acc, children[comp][i], phase, state),
                           comp, i + 1, phase, state)

\* a traversal that handles the children first
traverse_children_first(acc, comp, phase, state) ==
    LET a1 == traverse_children(acc, comp, 1, phase, state)
        a2 == [a1 EXCEPT !.visited = Append(@, comp)]
    IN  IF InDomain(comp, phase) THEN visit(a2, comp, phase, state) ELSE a2

\* traverse(comp, phase, state) (uvm_topdown_phase.py:55-108)
traverse(acc, comp, phase, state) ==
    LET a1 == [acc EXCEPT !.visited = Append(@, comp)]
        a2 == IF InDomain(comp, phase) THEN visit(a1, comp, phase, state) ELSE a1
    IN  traverse_children(a2, comp, 1, phase, state)

\* the components a traversal delivered ev to
Delivered(log, ev) == {log[i].comp : i \in {j \in DOMAIN log : log[j].ev = ev}}

\* the tree outside the specifications of the traversal: a root with no
\* children that overrides nothing
CompIdle ==
    /\ CompInit
    /\ children = [c \in Comps |-> IF c = Root THEN [i \in 1..(NumComps - 1) |-> i + 1] ELSE <<>>]
    /\ comp_domain = [c \in Comps |-> "common"]
    /\ m_build_done = [c \in Comps |-> FALSE]
    /\ m_phase_imps = [c \in Comps |-> {}]

\* one call self.traverse(top, phase, state) on the root of the tree, the
\* actions of the components of failing raising: what it does to the
\* components
traverse_top(phase, state, failing) ==
    \E acc \in {traverse([cur |-> m_current_phase, active |-> m_phasing_active,
                          log |-> <<>>, visited |-> <<>>, fatal |-> 0,
                          fails |-> failing, exc |-> FALSE],
                         Root, phase, state)} :
        /\ m_current_phase' = acc.cur
        /\ m_phasing_active' = acc.active
        /\ tcall' = [phase |-> phase, state |-> state]
        /\ tlog' = acc.log
        /\ tvisited' = acc.visited
        /\ tfatal' = acc.fatal
        /\ opened' = (opened \cup ({phase} \X Delivered(acc.log, "phase_started")))
                        \ ({phase} \X Delivered(acc.log, "phase_ended"))
        /\ closed' = opened \cap ({phase} \X Delivered(acc.log, "phase_ended"))
        /\ UNCHANGED <<children, comp_domain, m_build_done, m_phase_imps>>

\* the call with every action returning normally
do_traverse(phase, state) == traverse_top(phase, state, {})

\* the call made on its own
topdown_traverse(phase, state) ==
    /\ do_traverse(phase, state)
    /\ UNCHANGED outsideComp

\* the call made on its own, with actions that may raise
topdown_traverse_failing(phase, state, failing) ==
    /\ traverse_top(phase, state, failing)
    /\ UNCHANGED outsideComp

(***************************************************************************)
(* The phase graph and its scheduler, after the design of the phase node    *)
(* state machine (specification, sections 4.2 and 4.3): the nodes of one    *)
(* schedule in a chain, each with the state machine                         *)
(*   DORMANT -> SCHEDULED -> SYNCING -> STARTED -> EXECUTING ->             *)
(*   READY_TO_END -> ENDED -> CLEANUP -> DONE,                              *)
(* and JUMPING while a jump is in flight.  The scheduler is the only        *)
(* mutator of a node's state; every step below is one step of it, together  *)
(* with the traversal of the components it makes in that state.             *)
(***************************************************************************)
UVM_PHASE_DORMANT == "DORMANT"
UVM_PHASE_SCHEDULED == "SCHEDULED"
UVM_PHASE_SYNCING == "SYNCING"
UVM_PHASE_DONE == "DONE"
UVM_PHASE_JUMPING == "JUMPING"

\* the states in their forward order
StateOrder == <<UVM_PHASE_DORMANT, UVM_PHASE_SCHEDULED, UVM_PHASE_SYNCING,
                UVM_PHASE_STARTED, UVM_PHASE_EXECUTING, UVM_PHASE_READY_TO_END,
                UVM_PHASE_ENDED, UVM_PHASE_CLEANUP, UVM_PHASE_DONE>>
Rank(state) == CHOOSE i \in DOMAIN StateOrder : StateOrder[i] = state

\* the nodes of the schedule, each the successor of the one before
Schedule == <<"common.build", "d1.build", "common.final">>
NodeIndex(n) == CHOOSE i \in DOMAIN Schedule : Schedule[i] = n

\* the predecessors of n have all reached at least ENDED
PredecessorsEnded(n) ==
    \A i \in DOMAIN Schedule :
        i < NodeIndex(n) =>
            /\ m_state[Schedule[i]] # UVM_PHASE_JUMPING
            /\ Rank(m_state[Schedule[i]]) >= Rank(UVM_PHASE_ENDED)

\* the node whose components are being taken through the phase, if any
RunningNodes == {n \in PhaseNodes :
               m_state[n] \in {UVM_PHASE_STARTED, UVM_PHASE_EXECUTING, UVM_PHASE_READY_TO_END}}

\* the scheduler goes on: no fatal report was issued and no jump is in flight
Scheduling == ~pfatal /\ m_jump_phase = None

NoOwed == [target |-> None, node |-> None, paid |-> FALSE]

PhaseInit ==
    /\ m_state = [n \in PhaseNodes |-> UVM_PHASE_DORMANT]
    /\ m_jump_phase = None
    /\ objectors = {}
    /\ raised = FALSE
    /\ m_ready_to_end_count = 0
    /\ pfatal = FALSE
    /\ jumps = 0
    /\ owed = NoOwed

\* DORMANT -> SCHEDULED: the first node, or the successor of a node that has ended
schedule(n) ==
    /\ Scheduling
    /\ m_state[n] = UVM_PHASE_DORMANT
    /\ PredecessorsEnded(n)
    /\ m_state' = [m_state EXCEPT ![n] = UVM_PHASE_SCHEDULED]
    /\ UNCHANGED <<m_jump_phase, objectors, raised, m_ready_to_end_count, pfatal, jumps, owed>>
    /\ UNCHANGED compVars
    /\ UNCHANGED outsidePhase

\* SCHEDULED -> SYNCING
sync(n) ==
    /\ Scheduling
    /\ m_state[n] = UVM_PHASE_SCHEDULED
    /\ m_state' = [m_state EXCEPT ![n] = UVM_PHASE_SYNCING]
    /\ UNCHANGED <<m_jump_phase, objectors, raised, m_ready_to_end_count, pfatal, jumps, owed>>
    /\ UNCHANGED compVars
    /\ UNCHANGED outsidePhase

\* SYNCING -> STARTED, once every predecessor has reached at least ENDED:
\* every component is notified "phase started"
start(n) ==
    /\ Scheduling
    /\ m_state[n] = UVM_PHASE_SYNCING
    /\ PredecessorsEnded(n)
    /\ m_state' = [m_state EXCEPT ![n] = UVM_PHASE_STARTED]
    /\ do_traverse(n, UVM_PHASE_STARTED)
    /\ UNCHANGED <<m_jump_phase, objectors, raised, m_ready_to_end_count, pfatal, jumps, owed>>
    /\ UNCHANGED outsidePhase

\* STARTED -> EXECUTING: the action of the stage runs on the components
exec(n) ==
    /\ Scheduling
    /\ m_state[n] = UVM_PHASE_STARTED
    /\ m_state' = [m_state EXCEPT ![n] = UVM_PHASE_EXECUTING]
    /\ do_traverse(n, UVM_PHASE_EXECUTING)
    /\ owed' = IF owed.target = n THEN [owed EXCEPT !.paid = TRUE] ELSE owed
    /\ UNCHANGED <<m_jump_phase, objectors, raised, m_ready_to_end_count, pfatal, jumps>>
    /\ UNCHANGED outsidePhase

\* a poll of READY_TO_END: every component the phase applies to gets "phase
\* ready to end" and may raise an objection; R is the set of those that do
poll(n, R) ==
    /\ objectors' = R
    /\ raised' = (R # {})
    /\ do_traverse(n, UVM_PHASE_READY_TO_END)

\* EXECUTING -> READY_TO_END, after the traversal of EXECUTING has completed
ready_to_end(n, R) ==
    /\ Scheduling
    /\ m_state[n] = UVM_PHASE_EXECUTING
    /\ R \subseteq {c \in Comps : InDomain(c, n)}
    /\ m_state' = [m_state EXCEPT ![n] = UVM_PHASE_READY_TO_END]
    /\ m_ready_to_end_count' = 0
    /\ poll(n, R)
    /\ UNCHANGED <<m_jump_phase, pfatal, jumps, owed>>
    /\ UNCHANGED outsidePhase

\* a component drops its objection
drop_objection(c) ==
    /\ ~pfatal
    /\ c \in objectors
    /\ objectors' = objectors \ {c}
    /\ UNCHANGED <<m_state, m_jump_phase, raised, m_ready_to_end_count, pfatal, jumps, owed>>
    /\ UNCHANGED compVars
    /\ UNCHANGED outsidePhase

\* READY_TO_END re-entered: the objections raised by the last poll have all
\* been dropped, and the components are polled again
reenter_ready_to_end(n, R) ==
    /\ Scheduling
    /\ m_state[n] = UVM_PHASE_READY_TO_END
    /\ objectors = {}
    /\ raised
    /\ m_ready_to_end_count < MaxRounds
    /\ R \subseteq {c \in Comps : InDomain(c, n)}
    /\ m_ready_to_end_count' = m_ready_to_end_count + 1
    /\ UNCHANGED <<m_state, m_jump_phase, pfatal, jumps, owed>>
    /\ poll(n, R)
    /\ UNCHANGED outsidePhase

\* READY_TO_END -> ENDED with the test of the open objections left out
end_ignores_objections(n) ==
    /\ Scheduling
    /\ m_state[n] = UVM_PHASE_READY_TO_END
    /\ m_state' = [m_state EXCEPT ![n] = UVM_PHASE_ENDED]
    /\ do_traverse(n, UVM_PHASE_ENDED)
    /\ UNCHANGED <<m_jump_phase, objectors, raised, m_ready_to_end_count, pfatal, jumps, owed>>
    /\ UNCHANGED outsidePhase

\* READY_TO_END -> ENDED: no objection is open and the last poll raised none;
\* every component gets its final notification
end(n) ==
    /\ Scheduling
    /\ m_state[n] = UVM_PHASE_READY_TO_END
    /\ objectors = {}
    /\ ~raised
    /\ m_state' = [m_state EXCEPT ![n] = UVM_PHASE_ENDED]
    /\ do_traverse(n, UVM_PHASE_ENDED)
    /\ UNCHANGED <<m_jump_phase, objectors, raised, m_ready_to_end_count, pfatal, jumps, owed>>
    /\ UNCHANGED outsidePhase

\* the objection overflow: the last poll raised an objection again after the
\* maximum number of extension rounds.  It is reported at FATAL; the node is
\* ended (its components still get their final notification) and the run is
\* aborted after the current cleanup.
overflow(n) ==
    /\ Scheduling
    /\ m_state[n] = UVM_PHASE_READY_TO_END
    /\ objectors = {}
    /\ raised
    /\ m_ready_to_end_count = MaxRounds
    /\ pfatal' = TRUE
    /\ m_state' = [m_state EXCEPT ![n] = UVM_PHASE_ENDED]
    /\ do_traverse(n, UVM_PHASE_ENDED)
    /\ UNCHANGED <<m_jump_phase, objectors, raised, m_ready_to_end_count, jumps, owed>>
    /\ UNCHANGED outsidePhase

\* ENDED -> DONE, with CLEANUP left out
cleanup_skipped(n) ==
    /\ m_jump_phase = None
    /\ m_state[n] = UVM_PHASE_ENDED
    /\ m_state' = [m_state EXCEPT ![n] = UVM_PHASE_DONE]
    /\ UNCHANGED <<m_jump_phase, objectors, raised, m_ready_to_end_count, pfatal, jumps, owed>>
    /\ UNCHANGED compVars
    /\ UNCHANGED outsidePhase

\* ENDED -> CLEANUP: bookkeeping only, no component is visited; it still runs
\* after a fatal report
cleanup(n) ==
    /\ m_jump_phase = None
    /\ m_state[n] = UVM_PHASE_ENDED
    /\ m_state' = [m_state EXCEPT ![n] = UVM_PHASE_CLEANUP]
    /\ UNCHANGED <<m_jump_phase, objectors, raised, m_ready_to_end_count, pfatal, jumps, owed>>
    /\ UNCHANGED compVars
    /\ UNCHANGED outsidePhase

\* CLEANUP -> DONE: bookkeeping only
done(n) ==
    /\ Scheduling
    /\ m_state[n] = UVM_PHASE_CLEANUP
    /\ m_state' = [m_state EXCEPT ![n] = UVM_PHASE_DONE]
    /\ UNCHANGED <<m_jump_phase, objectors, raised, m_ready_to_end_count, pfatal, jumps, owed>>
    /\ UNCHANGED compVars
    /\ UNCHANGED outsidePhase

\* a jump to the node target is requested while the node r is running, target
\* being r or a node before it: r enters JUMPING and the jump is in flight
request_jump(r, target) ==
    /\ Scheduling
    /\ jumps < MaxJumps
    /\ r \in RunningNodes
    /\ NodeIndex(target) <= NodeIndex(r)
    /\ m_state' = [m_state EXCEPT ![r] = UVM_PHASE_JUMPING]
    /\ m_jump_phase' = target
    /\ jumps' = jumps + 1
    /\ UNCHANGED <<objectors, raised, m_ready_to_end_count, pfatal, owed>>
    /\ UNCHANGED compVars
    /\ UNCHANGED outsidePhase

\* the nodes a jump resets: from the target through the interrupted node
JumpRange(r, target) ==
    {n \in PhaseNodes : NodeIndex(target) <= NodeIndex(n) /\ NodeIndex(n) <= NodeIndex(r)}

\* the jump with the interrupted node left as it is
jump_keeps_interrupted(r) ==
    /\ m_jump_phase # None
    /\ m_state[r] = UVM_PHASE_JUMPING
    /\ m_state' = [n \in PhaseNodes |->
                     IF n = m_jump_phase THEN UVM_PHASE_SCHEDULED
                     ELSE IF n = r THEN UVM_PHASE_DONE
                     ELSE IF n \in JumpRange(r, m_jump_phase) THEN UVM_PHASE_DORMANT
                     ELSE m_state[n]]
    /\ m_jump_phase' = None
    /\ objectors' = {}
    /\ raised' = FALSE
    /\ m_ready_to_end_count' = 0
    /\ owed' = IF m_jump_phase # r THEN [target |-> m_jump_phase, node |-> r, paid |-> FALSE] ELSE owed
    /\ UNCHANGED <<pfatal, jumps>>
    /\ UNCHANGED compVars
    /\ UNCHANGED outsidePhase

\* the jump is applied: every node from the target through the interrupted
\* node r is reset, the target to SCHEDULED and the others to DORMANT, the
\* other nodes keep their state, and scheduling resumes from the target
jump(r) ==
    /\ m_jump_phase # None
    /\ m_state[r] = UVM_PHASE_JUMPING
    /\ m_state' = [n \in PhaseNodes |->
                     IF n = m_jump_phase THEN UVM_PHASE_SCHEDULED
                     ELSE IF n \in JumpRange(r, m_jump_phase) THEN UVM_PHASE_DORMANT
                     ELSE m_state[n]]
    /\ m_jump_phase' = None
    /\ objectors' = {}
    /\ raised' = FALSE
    /\ m_ready_to_end_count' = 0
    /\ owed' = IF m_jump_phase # r THEN [target |-> m_jump_phase, node |-> r, paid |-> FALSE] ELSE owed
    /\ UNCHANGED <<pfatal, jumps>>
    /\ UNCHANGED compVars
    /\ UNCHANGED outsidePhase

(***************************************************************************)
(* The specifications: one per primitive; the other primitive stays in its *)
(* initial state.                                                          *)
(***************************************************************************)
SemNext ==
    \/ \E t \in Tasks, n \in Units : get(t, n)
    \/ \E t \in Tasks : get_resume_timer(t)
    \/ \E t \in Tasks : get_resume_acquire(t)
    \/ \E t \in Tasks, n \in Units : put(t, n)
    \/ \E t \in Tasks, n \in Units : try_get(t, n)

InitSem == SemInit /\ EvInit /\ PoolInit /\ DapInit /\ CompIdle /\ PhaseInit

SpecSem == InitSem /\ [][SemNext]_vars

\* the gate with the scheduler of the tasks: a task that a Timer(0) or the
\* lock has made runnable is resumed; no task is obliged to make a call
SpecSemFair ==
    /\ InitSem
    /\ [][SemNext]_vars
    /\ \A t \in Tasks : WF_vars(get_resume_timer(t))
    /\ \A t \in Tasks : WF_vars(get_resume_acquire(t))

EvNext ==
    \/ \E t \in Tasks : wait_trigger(t)
    \/ \E t \in Tasks : wait_trigger_resume(t)
    \/ \E t \in Tasks : wait_ptrigger(t)
    \/ \E t \in Tasks : wait_ptrigger_resume(t)
    \/ \E d \in Payloads, r \in PreReturns : trigger(d, r)
    \/ \E w \in BOOLEAN : reset(w)
    \/ \E cb \in CbIds, a \in BOOLEAN : add_callback(cb, a)
    \/ Tick

InitEvent == SemInit /\ max_count = 1 /\ EvInit /\ PoolInit /\ DapInit /\ CompIdle /\ PhaseInit

SpecEvent == InitEvent /\ [][EvNext]_vars

\* the level-sensitive waits of the event, with the calls that move the level
LatchNext ==
    \/ \E t \in Tasks, delta \in BOOLEAN : wait_on(t, delta)
    \/ \E t \in Tasks : wait_on_timer(t)
    \/ \E t \in Tasks : wait_on_resume(t)
    \/ \E t \in Tasks, delta \in BOOLEAN : wait_off(t, delta)
    \/ \E t \in Tasks : wait_off_timer(t)
    \/ \E t \in Tasks : wait_off_resume(t)
    \/ \E d \in Payloads, r \in PreReturns : trigger(d, r)
    \/ \E w \in BOOLEAN : reset(w)
    \/ \E cb \in CbIds, a \in BOOLEAN : add_callback(cb, a)
    \/ Tick

InitLatch == SemInit /\ max_count = 1 /\ EvInit /\ PoolInit /\ DapInit /\ CompIdle /\ PhaseInit

SpecLatch == InitLatch /\ [][LatchNext]_vars

\* every operation of the event
EventAllNext ==
    \/ \E t \in Tasks : wait_trigger(t)
    \/ \E t \in Tasks : wait_trigger_resume(t)
    \/ \E t \in Tasks : wait_ptrigger(t)
    \/ \E t \in Tasks : wait_ptrigger_resume(t)
    \/ \E t \in Tasks, delta \in BOOLEAN : wait_on(t, delta)
    \/ \E t \in Tasks : wait_on_timer(t)
    \/ \E t \in Tasks : wait_on_resume(t)
    \/ \E t \in Tasks, delta \in BOOLEAN : wait_off(t, delta)
    \/ \E t \in Tasks : wait_off_timer(t)
    \/ \E t \in Tasks : wait_off_resume(t)
    \/ \E d \in Payloads, r \in PreReturns : trigger(d, r)
    \/ \E w \in BOOLEAN : reset(w)
    \/ \E cb \in CbIds, a \in BOOLEAN : add_callback(cb, a)
    \/ get_trigger_time
    \/ is_on
    \/ is_off
    \/ get_trigger_data
    \/ Tick

SpecEventAll == InitLatch /\ [][EventAllNext]_vars

\* set() and wait() of the event, among waits for its trigger
WaitNext ==
    \/ set
    \/ \E t \in Tasks : wait_call(t)
    \/ \E t \in Tasks : wait_resume(t)
    \/ \E t \in Tasks : wait_trigger(t)
    \/ \E t \in Tasks : wait_trigger_resume(t)
    \/ \E d \in Payloads, r \in PreReturns : trigger(d, r)
    \/ \E w \in BOOLEAN : reset(w)

SpecWait == InitEvent /\ [][WaitNext]_vars

\* the registries
PoolNext ==
    \/ \E T \in ElemTypes \cup {None} : new_UVMPool(T)
    \/ \E Constr \in ElemTypes : new_UVMObjectStringPool(Constr)
    \/ new_UVMEventPool
    \/ new_UVMBarrierPool
    \/ \E p \in 1..Len(pools), key \in Keys : pool_get(p, key)
    \/ UVMPool_get_global_pool
    \/ \E key \in Keys : UVMPool_get_global(key)
    \/ \E cls \in StringPoolClasses : UVMObjectStringPool_get_global_pool(cls)
    \/ \E cls \in StringPoolClasses, key \in Keys : UVMObjectStringPool_get_global(cls, key)

InitPool == SemInit /\ max_count = 1 /\ EvInit /\ PoolInit /\ DapInit /\ CompIdle /\ PhaseInit

SpecPool == InitPool /\ [][PoolNext]_vars

\* one registry of either kind, with the calls that edit it and move its cursor
PoolEditNext ==
    \/ \E T \in ElemTypes \cup {None} : pools = <<>> /\ new_UVMPool(T)
    \/ \E Constr \in ElemTypes : pools = <<>> /\ new_UVMObjectStringPool(Constr)
    \/ \E p \in 1..Len(pools), key \in Keys : pool_get(p, key)
    \/ \E p \in 1..Len(pools), key \in Keys : pool_add(p, key)
    \/ \E p \in 1..Len(pools), key \in Keys \cup {None} : pool_delete(p, key)
    \/ \E p \in 1..Len(pools) : pool_first(p)
    \/ \E p \in 1..Len(pools) : pool_last(p)
    \/ \E p \in 1..Len(pools) : pool_next(p)
    \/ \E p \in 1..Len(pools) : pool_prev(p)

SpecPoolEdit == InitPool /\ [][PoolEditNext]_vars

\* the data holder
DapNext ==
    \/ \E value \in DapValues : uvm_simple_lock_dap_set(value)
    \/ uvm_simple_lock_dap_get
    \/ uvm_simple_lock_dap_lock
    \/ uvm_simple_lock_dap_unlock
    \/ uvm_simple_lock_dap_is_locked

InitDap == SemInit /\ max_count = 1 /\ EvInit /\ PoolInit /\ DapInit /\ CompIdle /\ PhaseInit

SpecDap == InitDap /\ [][DapNext]_vars

\* the state a phase node is traversed in after a traversal in state s
After(s) ==
    CASE s = UVM_PHASE_STARTED -> {UVM_PHASE_EXECUTING}
      [] s = UVM_PHASE_EXECUTING -> {UVM_PHASE_READY_TO_END}
      [] s = UVM_PHASE_READY_TO_END -> {UVM_PHASE_READY_TO_END, UVM_PHASE_ENDED}
      [] OTHER -> {}

\* the top-down traversal on any tree: a first call with any phase and state,
\* then the calls that take the same phase node through its later states
TopdownNext ==
    \E phase \in PhaseNodes, state \in TraverseStates :
        /\ tcall.phase = None \/ (tcall.phase = phase /\ state \in After(tcall.state))
        /\ topdown_traverse(phase, state)

InitTopdown == SemInit /\ max_count = 1 /\ EvInit /\ PoolInit /\ DapInit /\ CompInit /\ PhaseInit

SpecTopdown == InitTopdown /\ [][TopdownNext]_vars

\* the same calls, the actions of any set of components raising in each
TopdownFailNext ==
    \E phase \in PhaseNodes, state \in TraverseStates, failing \in SUBSET Comps :
        /\ tcall.phase = None \/ (tcall.phase = phase /\ state \in After(tcall.state))
        /\ topdown_traverse_failing(phase, state, failing)

SpecTopdownFail == InitTopdown /\ [][TopdownFailNext]_vars

\* the scheduler taking the schedule through its phases
PhaseNext ==
    \/ \E n \in PhaseNodes : schedule(n)
    \/ \E n \in PhaseNodes : sync(n)
    \/ \E n \in PhaseNodes : start(n)
    \/ \E n \in PhaseNodes : exec(n)
    \/ \E n \in PhaseNodes, R \in SUBSET Comps : ready_to_end(n, R)
    \/ \E c \in Comps : drop_objection(c)
    \/ \E n \in PhaseNodes, R \in SUBSET Comps : reenter_ready_to_end(n, R)
    \/ \E n \in PhaseNodes : end(n)
    \/ \E n \in PhaseNodes : overflow(n)
    \/ \E n \in PhaseNodes : cleanup(n)
    \/ \E n \in PhaseNodes : done(n)
    \/ \E r, target \in PhaseNodes : request_jump(r, target)
    \/ \E r \in PhaseNodes : jump(r)

InitPhase == SemInit /\ max_count = 1 /\ EvInit /\ PoolInit /\ DapInit /\ CompIdle /\ PhaseInit

SpecPhase == InitPhase /\ [][PhaseNext]_vars

\* the steps the scheduler takes by itself, whenever one is possible
SchedulerStep ==
    \/ \E n \in PhaseNodes : schedule(n)
    \/ \E n \in PhaseNodes : sync(n)
    \/ \E n \in PhaseNodes : start(n)
    \/ \E n \in PhaseNodes : exec(n)
    \/ \E n \in PhaseNodes, R \in SUBSET Comps : ready_to_end(n, R)
    \/ \E n \in PhaseNodes, R \in SUBSET Comps : reenter_ready_to_end(n, R)
    \/ \E n \in PhaseNodes : end(n)
    \/ \E n \in PhaseNodes : overflow(n)
    \/ \E n \in PhaseNodes : cleanup(n)
    \/ \E n \in PhaseNodes : done(n)
    \/ \E r \in PhaseNodes : jump(r)

\* the scheduler with its fairness: it takes a step whenever it can, and a
\* component that raised an objection drops it in the end
SpecPhaseFair ==
    /\ InitPhase
    /\ [][PhaseNext]_vars
    /\ WF_vars(SchedulerStep)
    /\ WF_vars(\E c \in Comps : drop_objection(c))

(***************************************************************************)
(* Claims about the Resource Gate (sv.semaphore).                          *)
(***************************************************************************)

\* C1: with every call passing 1 <= n <= capacity, the available count stays
\* within 0..capacity at every suspension point.
C1_CountWithinCapacity ==
    argsOk => (0 <= count /\ count <= max_count)

\* C2: a get(n) with n <= capacity deducts its n units only in a state where at
\* least n units are available at the moment of the deduction, on the fast path
\* (sv.py:329) and after the lock is acquired (sv.py:337).
C2_GetDeductsOnlyWhenAvailable ==
    [][\A t \in Tasks :
         /\ (get_resume_acquire(t) /\ sarg[t] <= max_count) => count >= sarg[t]
         /\ \A n \in 1..max_count : (get(t, n) /\ count' # count) => count >= n]_vars

\* C3: on a fresh gate of capacity C, each of C sequential get(1) calls is never
\* queued behind the lock (it needs no put to complete); a further get(1) stays
\* queued and does not complete while no put(1) is called; once put(1) is
\* called it holds the lock and is scheduled to resume, so it completes.
C3_SequentialGets ==
    /\ mon.st = "inget" => spc[mon.who] \in {"timer0", "granted"}
    /\ mon.st = "extra" => spc[mon.who] = "waitlock"
    /\ mon.st # "early"
    /\ mon.st = "put" => spc[mon.who] = "granted"

\* the further get(1) has completed, after C sequential get(1) calls and a put(1)
C3_Witness ==
    mon.st = "done" /\ mon.k = max_count /\ max_count = MaxCap

\* C4: get(n) with n greater than the capacity fails at once with a usage error:
\* the caller is not suspended, and count and the lock flag are unchanged.
\* Stated for the gate states reached by calls that all passed 1 <= n <= capacity.
C4_GetOverCapacityFails ==
    [][\A t \in Tasks, n \in Units :
         (argsOk /\ get(t, n) /\ n > max_count) =>
             /\ sret' = "error"
             /\ spc'[t] = "idle"
             /\ count' = count
             /\ locked' = locked]_vars

\* C5: try_get(n) never suspends the caller; it returns true and deducts exactly
\* n when count >= n, and otherwise returns false and leaves count unchanged.
C5_TryGet ==
    [][\A t \in Tasks, n \in Units :
         try_get(t, n) =>
             /\ spc'[t] = "idle"
             /\ IF count >= n
                THEN sret' = "true" /\ count' = count - n
                ELSE sret' = "false" /\ count' = count]_vars

\* a try_get has just succeeded and taken the last units
C5_Witness ==
    sret = "true" /\ count = 0

(***************************************************************************)
(* Claims about the Event (UVMEventBase / UVMEvent).                       *)
(***************************************************************************)

\* a trigger that took effect in the current logical instant, with no reset since
TriggeredThisInstant == on /\ trigger_time = now

\* C6: a trigger called while no task is waiting is lost: a wait_trigger call
\* made after it blocks (it does not return before a further trigger).
C6_TriggerWithoutWaiterIsLost ==
    [][\A t \in Tasks :
         (lostTrig /\ wait_trigger(t)) => epc'[t] = "wt_wait"]_vars

\* C7: a wait_ptrigger call made in the logical instant of an earlier trigger
\* that took effect returns without blocking, in every interleaving.
C7_PtriggerSameInstant ==
    [][\A t \in Tasks :
         (TriggeredThisInstant /\ wait_ptrigger(t)) => epc'[t] = "idle"]_vars

\* C8: a trigger(data) that no registered callback vetoes (there may be none)
\* resumes every task blocked in wait_trigger or wait_ptrigger and leaves
\* on = true, trigger_data = data, trigger_time = now and num_waiters = 0.
\* Stated for the tasks waiting on the event's current m_event.
C8_TriggerTakesEffect ==
    [][\A d \in Payloads, r \in PreReturns :
         (trigger(d, r) /\ \A cb \in Registered : ~r[cb]) =>
             /\ \A u \in Pending : epc'[u] \in {"wt_run", "wp_run"}
             /\ on' = TRUE
             /\ trigger_data' = d
             /\ trigger_time' = now
             /\ num_waiters' = 0]_vars

\* C9: each trigger call invokes pre_trigger on every registered callback
\* exactly once, in callback-list order.
C9_PreTriggerOnEveryCallback ==
    [][\A d \in Payloads, r \in PreReturns :
         trigger(d, r) => preLog' = callbacks]_vars

\* C10: when a pre_trigger that the trigger call invoked returns true (a veto),
\* the call changes nothing of on, trigger_time, trigger_data and num_waiters,
\* resumes no waiter, runs no post_trigger and reports no error.
C10_VetoedTriggerHasNoEffect ==
    [][(\E r \in PreReturns :
           /\ \E i \in 1..Len(preLog') : r[preLog'[i]]
           /\ \E d \in Payloads : trigger(d, r)) =>
             /\ UNCHANGED <<on, trigger_time, trigger_data, num_waiters>>
             /\ UNCHANGED <<epc, m_event, value_changed>>
             /\ postLog' = <<>>
             /\ eret' = "ok"]_vars

\* a trigger has just been vetoed while a task was waiting and the event was off
C10_Witness ==
    /\ skip = PyAdd(PyBool(FALSE), PyBool(TRUE))
    /\ preLog # <<>>
    /\ Pending # {}
    /\ num_waiters > 0
    /\ ~on

\* no pre_trigger invoked by the call returns true for any registered callback
NoVeto(r) == \A cb \in Registered : ~r[cb]

\* C11: on a non-vetoed trigger, post_trigger runs exactly once for every
\* registered callback, in the order of the callback list (the registration
\* order when the callbacks were appended).
C11_PostTriggerInOrder ==
    [][\A d \in Payloads, r \in PreReturns :
         (NoVeto(r) /\ trigger(d, r)) => postLog' = callbacks]_vars

\* C12: reset, with either value of wakeup, is one step that leaves on = false,
\* num_waiters = 0 and trigger_time = 0 and invokes no pre_trigger and no
\* post_trigger.
C12_ResetClears ==
    [][\A w \in BOOLEAN :
         reset(w) =>
             /\ on' = FALSE
             /\ num_waiters' = 0
             /\ trigger_time' = 0
             /\ preLog' = <<>>
             /\ postLog' = <<>>]_vars

\* a reset has cleared the event after a trigger with payload took effect, while
\* a task was waiting
C12_Witness ==
    /\ ~on
    /\ trigger_data = "d1"
    /\ trigger_time = 0
    /\ num_waiters = 0
    /\ \E t \in Tasks : epc[t] = "orphan"
    /\ preLog = <<>>
    /\ postLog = <<>>

\* the tasks blocked inside wait_trigger or wait_ptrigger of the event
BlockedInTrigger == {t \in Tasks : epc[t] \in {"wt_wait", "wp_wait", "orphan"}}

\* C13: reset(wakeup=true) resumes every task blocked in wait_trigger or
\* wait_ptrigger on the event; reset(wakeup=false) resumes none of them.
C13_ResetWakeup ==
    [][/\ reset(TRUE) => (\A u \in BlockedInTrigger : epc'[u] \in {"wt_run", "wp_run"})
       /\ reset(FALSE) => (\A u \in BlockedInTrigger : epc'[u] = "orphan")]_vars

\* the zero-delay scheduling steps a task still has to sit out before its
\* wait_on or wait_off returns
TimerSteps(pc) ==
    IF pc = "won_t2" THEN 2
    ELSE IF pc \in {"won_t1", "woff_t1"} THEN 1
    ELSE 0

\* C14: wait_on(delta=false) while on, and wait_off(delta=false) while off,
\* return without suspending the caller; with delta = true each suspends for
\* exactly one zero-delay scheduling step.
C14_LevelAlreadyReached ==
    [][\A t \in Tasks, delta \in BOOLEAN :
         /\ (on /\ wait_on(t, delta)) =>
                IF delta THEN TimerSteps(epc'[t]) = 1 ELSE epc'[t] = "idle"
         /\ (~on /\ wait_off(t, delta)) =>
                IF delta THEN TimerSteps(epc'[t]) = 1 ELSE epc'[t] = "idle"]_vars

\* C15: a task blocked in wait_on returns only if the latch is on when it
\* resumes, and one blocked in wait_off only if it is off; and no task stays
\* blocked while the latch has the level it waits for: it has been made
\* runnable, and returns if the level still holds when it runs.
C15_LevelWaits ==
    /\ [](\A t \in Tasks : epc[t] # (IF on THEN "won_wait" ELSE "woff_wait"))
    /\ [][\A t \in Tasks :
            /\ wait_on_resume(t) => (epc'[t] = "idle" <=> on)
            /\ wait_off_resume(t) => (epc'[t] = "idle" <=> ~on)]_vars

\* a trigger has set the latch and made a task blocked in wait_on runnable
C15_Witness ==
    \E t \in Tasks : epc[t] = "won_run" /\ on /\ trigger_time = now /\ num_waiters = 0

\* C16: when a non-vetoed trigger call leaves the event on, trigger_time is the
\* logical time of that call; while the event is off (never triggered, or reset
\* since) trigger_time is 0.
C16_TriggerTime ==
    /\ [](~on => trigger_time = 0)
    /\ [][\A d \in Payloads, r \in PreReturns :
            (NoVeto(r) /\ trigger(d, r) /\ on') => trigger_time' = now]_vars

\* C17: on changes only inside trigger (to true) and reset (to false); the
\* waits, add_callback and the accessors leave on, trigger_time and
\* trigger_data unchanged.
C17_LatchFrame ==
    /\ [][(\/ \E t \in Tasks : \/ wait_trigger(t) \/ wait_trigger_resume(t)
                               \/ wait_ptrigger(t) \/ wait_ptrigger_resume(t)
                               \/ wait_on_timer(t) \/ wait_on_resume(t)
                               \/ wait_off_timer(t) \/ wait_off_resume(t)
                               \/ \E delta \in BOOLEAN : wait_on(t, delta) \/ wait_off(t, delta)
            \/ \E cb \in CbIds, a \in BOOLEAN : add_callback(cb, a)
            \/ is_on \/ is_off \/ get_trigger_time \/ get_trigger_data)
           => UNCHANGED <<on, trigger_time, trigger_data>>]_vars
    /\ [][(on' # on) =>
             IF on' THEN \E d \in Payloads, r \in PreReturns : trigger(d, r)
             ELSE \E w \in BOOLEAN : reset(w)]_vars

\* is_on has just returned True for an event triggered with a payload
C17_Witness ==
    eret = "True" /\ on /\ trigger_data = "d1" /\ skip = PyBool(FALSE)

(***************************************************************************)
(* Claims about the Keyed Registry (UVMPool and its subclasses).           *)
(***************************************************************************)

\* C18: within one registry, all get calls with the same key return the
\* identical value, whatever get calls with other keys come between, and at
\* most one element is ever constructed for a key of a registry.
C18_SameKeySameInstance ==
    /\ \A x \in got, y \in got : (x[1] = y[1] /\ x[2] = y[2]) => x[3] = y[3]
    /\ \A i \in 1..Len(heap), j \in 1..Len(heap) :
          (heap[i].pool = heap[j].pool /\ heap[i].key = heap[j].key) => i = j

\* a key has been asked for again after another key of the same registry, and
\* the registry holds elements under both
C18_Witness ==
    \E p \in 1..Len(pools) :
        /\ num(pools[p]) = 2
        /\ pret = pools[p].item[pools[p].keys[1]]
        /\ pret.kind = "obj"
        /\ \A k \in Keys : <<p, k, pools[p].item[k]>> \in got

\* the factory bound to a registry when it was made
Factory(pl) == IF pl.cls \in StringPoolClasses THEN pl.Constructor ELSE pl.T

\* C19: get(key) on a key not yet present constructs a new element with the
\* registry's factory, distinct from the elements under all other keys, and
\* stores it: afterwards exists(key) is true and num() has grown by one.  This
\* holds for every registry kind, a UVMPool made without an element type included.
C19_GetConstructsAndStores ==
    [][\A p \in 1..Len(pools), key \in Keys :
         (pool_get(p, key) /\ ~exists(pools[p], key)) =>
             /\ exists(pools'[p], key)
             /\ num(pools'[p]) = num(pools[p]) + 1
             /\ pret' = pools'[p].item[key]
             /\ pret'.kind = "obj"
             /\ Len(heap') = Len(heap) + 1
             /\ pret'.id = Len(heap')
             /\ heap'[pret'.id].cls = Factory(pools[p])
             /\ \A k \in DOMAIN pools[p].item : pools'[p].item[k] # pret']_vars

\* the global registries that exist
GlobalPools == {UVMPool_m_global_pool, UVMObjectStringPool_m_global_pool} \ {0}

\* the elements stored in registry number p
Elements(p) == {pools[p].item[k] : k \in DOMAIN pools[p].item}

\* C20: get_global_pool returns the same registry on every call, from every
\* class it is called on; get_global(key) returns the element that
\* get_global_pool().get(key) returns; and a registry made explicitly shares no
\* element with a global one, and no call on one registry changes the keys of
\* another.
C20_GlobalPool ==
    /\ [](\A g \in GlobalPools, p \in 1..Len(pools) :
             p # g => Elements(p) \cap Elements(g) = {})
    /\ [][/\ UVMPool_m_global_pool # 0 => UVMPool_m_global_pool' = UVMPool_m_global_pool
          /\ UVMObjectStringPool_m_global_pool # 0 =>
                UVMObjectStringPool_m_global_pool' = UVMObjectStringPool_m_global_pool
          /\ UVMPool_get_global_pool => pret' = PoolRef(UVMPool_m_global_pool')
          /\ \A cls \in StringPoolClasses :
                UVMObjectStringPool_get_global_pool(cls) =>
                    pret' = PoolRef(UVMObjectStringPool_m_global_pool')
          /\ \A key \in Keys :
                /\ UVMPool_get_global(key) =>
                      pret' = MethodGet(pools'[UVMPool_m_global_pool'], heap',
                                        UVMPool_m_global_pool', key).ret
                /\ \A cls \in StringPoolClasses :
                      UVMObjectStringPool_get_global(cls, key) =>
                          pret' = MethodGet(pools'[UVMObjectStringPool_m_global_pool'],
                                            heap', UVMObjectStringPool_m_global_pool',
                                            key).ret
          /\ \A p \in 1..Len(pools), key \in Keys :
                pool_get(p, key) =>
                    \A q \in 1..Len(pools) : q # p => pools'[q] = pools[q]]_vars

\* a global registry exists beside one made explicitly, get_global has just
\* returned an element of it, and the explicit registry holds an element too
C20_Witness ==
    /\ UVMObjectStringPool_m_global_pool # 0
    /\ pret \in Elements(UVMObjectStringPool_m_global_pool)
    /\ \E p \in 1..Len(pools) : p \notin GlobalPools /\ Elements(p) # {}

(***************************************************************************)
(* Claims about the Locked Data Holder (uvm_simple_lock_dap).              *)
(***************************************************************************)

\* C21: while the holder is locked, set(v) reports an error and leaves the
\* stored value and the lock flag unchanged, so the stored value, which get()
\* returns, is still the value stored when the holder was locked; get and
\* is_locked can be called in every state, return the stored value and the
\* flag, and report nothing.
C21_SetWhileLocked ==
    /\ [](m_locked => m_value = prelock)
    /\ [](ENABLED uvm_simple_lock_dap_get /\ ENABLED uvm_simple_lock_dap_is_locked)
    /\ [][/\ \A v \in DapValues :
               (m_locked /\ uvm_simple_lock_dap_set(v)) =>
                   /\ reported' = reported + 1
                   /\ UNCHANGED <<m_value, m_locked>>
          /\ uvm_simple_lock_dap_get =>
                (dret' = m_value /\ (m_locked => dret' = prelock) /\ reported' = reported)
          /\ uvm_simple_lock_dap_is_locked =>
                (dret' = PyStr(m_locked) /\ reported' = reported)]_vars

\* a get() of a locked holder, right after a refused set(b), returned the value
\* a that was stored before lock()
C21_Witness ==
    /\ dmon.st = "checked"
    /\ m_locked
    /\ reported = 1
    /\ dret = dmon.a
    /\ dret \in DapValues

\* C22: the holder is created unlocked; after any sequence of set, lock and
\* unlock calls the stored value, which get() returns, is the argument of the
\* last set called while unlocked (None when there was none), so a set(v)
\* called after lock() and unlock() is stored and get() returns v.
C22_GetReturnsLastUnlockedSet ==
    /\ dcall = "new" => (~m_locked /\ m_value = None)
    /\ m_value = lastSet
    /\ dcall = "get" => dret = lastSet
    /\ dmon.st = "reset" => m_value = dmon.c
    /\ dmon.st = "done" => dret = dmon.c

\* set(a), lock(), set(b), unlock(), set(c), get() were called, with c # a, and
\* the get() returned c
C22_Witness ==
    /\ dmon.st = "done"
    /\ dmon.c # dmon.a
    /\ dret = dmon.c
    /\ reported = 1

(***************************************************************************)
(* Claims about the top-down traversal (UVMTopdownPhase.traverse).         *)
(***************************************************************************)

\* where the last traversal reached component c
Pos(c) == CHOOSE i \in DOMAIN tvisited : tvisited[i] = c

RECURSIVE Subtree(_)
\* c and its descendants
Subtree(c) == {c} \cup UNION {Subtree(children[c][i]) : i \in DOMAIN children[c]}

\* the state is one in which components are visited
Visiting(state) ==
    state \in {UVM_PHASE_STARTED, UVM_PHASE_EXECUTING, UVM_PHASE_READY_TO_END, UVM_PHASE_ENDED}

\* the calls of kind ev that a traversal made on comp, run by `by`
Count(log, ev, comp, by) ==
    Cardinality({i \in DOMAIN log : log[i].ev = ev /\ log[i].comp = comp /\ log[i].by = by})

C24_BuildDoneSkip ==
    tcall.state = UVM_PHASE_EXECUTING =>
        /\ \A c \in Comps : \A i \in DOMAIN children[c] :
               \E k \in DOMAIN tvisited : tvisited[k] = children[c][i]
        /\ get_name(tcall.phase) = "build" =>
               Delivered(tlog, "exec_func") =
                   {c \in Comps : InDomain(c, tcall.phase) /\ ~m_build_done[c]}
        /\ get_name(tcall.phase) # "build" =>
               Delivered(tlog, "exec_func") = {c \in Comps : InDomain(c, tcall.phase)}

\* the EXECUTING traversal of build skipped a build-done component and invoked
\* the action on its child
C24_Witness ==
    /\ tcall = [phase |-> "common.build", state |-> UVM_PHASE_EXECUTING]
    /\ \E c \in Comps :
          /\ m_build_done[c]
          /\ c \notin Delivered(tlog, "exec_func")
          /\ children[c] # <<>>
          /\ children[c][1] \in Delivered(tlog, "exec_func")

\* C25: a traversal in state ENDED delivers phase_ended exactly once to every
\* component that received phase_started for that node, and leaves its
\* current-phase marker cleared (None); a traversal in state STARTED sets the
\* marker to the phase before phase_started is delivered.
C25_StartedEnded ==
    /\ [](tcall.state = UVM_PHASE_STARTED =>
            \A i \in DOMAIN tlog :
                tlog[i].ev = "phase_started" => tlog[i].cur = tcall.phase)
    /\ [][\A phase \in PhaseNodes :
            topdown_traverse(phase, UVM_PHASE_ENDED) =>
                \A c \in Comps :
                    <<phase, c>> \in opened =>
                        /\ Count(tlog', "phase_ended", c, "self") = 1
                        /\ m_current_phase'[c] = None
                        /\ <<phase, c>> \notin opened']_vars

\* an ENDED traversal closed the phase for two components that had received
\* phase_started
C25_Witness ==
    /\ tcall.state = UVM_PHASE_ENDED
    /\ Cardinality(closed) >= 2
    /\ \A pc \in closed : m_current_phase[pc[2]] = None

\* C26 (as claimed): in an EXECUTING traversal, for a component with an
\* override registered for the phase the override's action is invoked exactly
\* once and the node's default action is not invoked; for a component without
\* one the node's default action is invoked exactly once.
C26_OverrideOrDefault ==
    tcall.state = UVM_PHASE_EXECUTING =>
        \A c \in Comps :
            IF get_name(tcall.phase) \in m_phase_imps[c]
              THEN /\ Count(tlog, "exec_func", c, "override") = 1
                   /\ Count(tlog, "exec_func", c, "self") = 0
              ELSE /\ Count(tlog, "exec_func", c, "self") = 1
                   /\ Count(tlog, "exec_func", c, "override") = 0

\* the traversal invokes the action on comp: the phase applies to it and the
\* build-done rule does not skip it
Invoked(comp, phase) ==
    InDomain(comp, phase) /\ ~(get_name(phase) = "build" /\ m_build_done[comp])

\* C26 (amended): in an EXECUTING traversal, for every component the phase
\* applies to and the build-done rule does not skip, the override's action is
\* invoked exactly once and the default not at all when an override is
\* registered for the phase, and the default exactly once otherwise; on the
\* other components nothing is invoked.
C26_OverrideOrDefaultWhenInvoked ==
    tcall.state = UVM_PHASE_EXECUTING =>
        \A c \in Comps :
            LET o == Count(tlog, "exec_func", c, "override")
                d == Count(tlog, "exec_func", c, "self")
            IN  IF ~Invoked(c, tcall.phase) THEN o = 0 /\ d = 0
                ELSE IF get_name(tcall.phase) \in m_phase_imps[c] THEN o = 1 /\ d = 0
                ELSE o = 0 /\ d = 1

\* an EXECUTING traversal ran the override of one component and the default
\* action of another
C26_Witness ==
    /\ tcall.state = UVM_PHASE_EXECUTING
    /\ \E c, k \in Comps :
          /\ Count(tlog, "exec_func", c, "override") = 1
          /\ get_name(tcall.phase) \in m_phase_imps[c]
          /\ Count(tlog, "exec_func", k, "self") = 1

(***************************************************************************)
(* Claims about the phase node state machine and the scheduler.            *)
(***************************************************************************)

\* b is a, or the state after a in the forward order
Forward(a, b) ==
    \/ a = b
    \/ /\ a # UVM_PHASE_JUMPING
       /\ b # UVM_PHASE_JUMPING
       /\ Rank(b) = Rank(a) + 1

\* C27: while no jump is in flight, the state of every phase node only moves
\* forward through DORMANT, SCHEDULED, SYNCING, STARTED, EXECUTING,
\* READY_TO_END, ENDED, CLEANUP, DONE, one state at a time (READY_TO_END may be
\* re-entered), and components are visited only by the steps that take a node
\* into STARTED, EXECUTING, READY_TO_END or ENDED, in that state of the node.
C27_ForwardOnly ==
    /\ [][(m_jump_phase = None /\ m_jump_phase' = None) =>
             \A n \in PhaseNodes : Forward(m_state[n], m_state'[n])]_vars
    /\ [][compVars' # compVars =>
             /\ Visiting(tcall'.state)
             /\ m_state'[tcall'.phase] = tcall'.state]_vars
    /\ [][(\E n \in PhaseNodes : m_state'[n] # m_state[n] /\ ~Visiting(m_state'[n])) =>
             UNCHANGED compVars]_vars

\* the first node went through all its states to DONE, with READY_TO_END
\* re-entered once and no jump
C27_Witness ==
    /\ m_state[Schedule[1]] = UVM_PHASE_DONE
    /\ m_state[Schedule[2]] = UVM_PHASE_DORMANT
    /\ jumps = 0
    /\ m_ready_to_end_count = 1
    /\ tcall = [phase |-> Schedule[1], state |-> UVM_PHASE_ENDED]

\* C28: a phase node never advances from READY_TO_END to ENDED while a
\* component holds an open objection on it; the extension rounds never exceed
\* the maximum, and a node whose last poll raised an objection leaves
\* READY_TO_END only after the maximum number of rounds and with a fatal
\* report, or by a jump; with every objection dropped in the end, a node in
\* READY_TO_END whose poll raised an objection always leaves it (at most one
\* node is in READY_TO_END at a time).
C28_ReadyToEnd ==
    /\ [][\A n \in PhaseNodes :
             (m_state[n] = UVM_PHASE_READY_TO_END /\ m_state'[n] = UVM_PHASE_ENDED) =>
                 objectors = {}]_vars
    /\ [](m_ready_to_end_count <= MaxRounds)
    /\ [][\A n \in PhaseNodes :
             (/\ m_state[n] = UVM_PHASE_READY_TO_END
              /\ m_state'[n] \notin {UVM_PHASE_READY_TO_END, UVM_PHASE_JUMPING}
              /\ raised) =>
                 (m_ready_to_end_count = MaxRounds /\ pfatal' /\ ~pfatal)]_vars
    /\ (\E n \in PhaseNodes : m_state[n] = UVM_PHASE_READY_TO_END /\ raised)
          ~> (\A n \in PhaseNodes : m_state[n] # UVM_PHASE_READY_TO_END)

\* a node spent the maximum number of extension rounds in READY_TO_END and
\* was ended with a fatal report
C28_Witness ==
    /\ pfatal
    /\ m_ready_to_end_count = MaxRounds
    /\ raised
    /\ \E n \in PhaseNodes : m_state[n] = UVM_PHASE_ENDED /\ tcall.phase = n

\* C29: when a jump to a target node is applied while a later node is
\* running, every node from the target through the interrupted node is reset
\* to DORMANT or SCHEDULED, the nodes outside that range keep their state, and
\* scheduling resumes from the target: the interrupted node does not run
\* again before the target's action has executed again, which it does.
C29_Jump ==
    /\ [][\A r \in PhaseNodes :
             (jump(r) /\ m_jump_phase # r) =>
                 /\ \A n \in JumpRange(r, m_jump_phase) :
                       m_state'[n] \in {UVM_PHASE_DORMANT, UVM_PHASE_SCHEDULED}
                 /\ \A n \in PhaseNodes \ JumpRange(r, m_jump_phase) :
                       m_state'[n] = m_state[n]
                 /\ m_state'[m_jump_phase] = UVM_PHASE_SCHEDULED]_vars
    /\ []((owed.node # None /\ ~owed.paid) =>
            m_state[owed.node] \in {UVM_PHASE_DORMANT, UVM_PHASE_SCHEDULED,
                                    UVM_PHASE_SYNCING})
    /\ (owed.node # None) ~> owed.paid

\* after a jump from the last node of the schedule to the first, the first
\* executed again and then the last is executing again
C29_Witness ==
    /\ owed = [target |-> Schedule[1], node |-> Schedule[Len(Schedule)], paid |-> TRUE]
    /\ m_state[Schedule[Len(Schedule)]] = UVM_PHASE_EXECUTING
    /\ m_state[Schedule[1]] = UVM_PHASE_DONE

\* a task is in the middle of acquiring: it was made runnable inside get and
\* has not resumed yet
Acquiring(t) == spc[t] \in {"granted", "timer0"}

\* C30: a task blocked in get(n) while the available count is at least n and
\* no other task is in the middle of acquiring is eventually resumed, whether
\* or not a further put is called.
C30_BlockedGetResumed ==
    \A t \in Tasks :
        (/\ spc[t] = "waitlock"
         /\ count >= sarg[t]
         /\ \A u \in Tasks \ {t} : ~Acquiring(u))
            ~> (spc[t] # "waitlock")

\* C31: a task blocked in wait_trigger is resumed by the next trigger that no
\* pre_trigger vetoes: such a trigger resumes every task blocked in
\* wait_trigger, and until then the task stays blocked on the event the next
\* trigger sets, whatever is called in between (reset(wakeup=false) included).
C31_NextTriggerResumes ==
    /\ [][\A d \in Payloads, r \in PreReturns :
             (NoVeto(r) /\ trigger(d, r)) =>
                 \A t \in Tasks : epc[t] = "wt_wait" => epc'[t] = "wt_run"]_vars
    /\ [][\A t \in Tasks :
             (epc[t] = "wt_wait" /\ epc'[t] # "wt_run") => epc'[t] = "wt_wait"]_vars

\* C32: a wait_ptrigger call made while the most recent trigger that took
\* effect lies at an earlier logical instant (on, with trigger_time before
\* now) blocks, and a task blocked in wait_ptrigger is resumed only by a
\* trigger or by a reset that wakes the waiters.
C32_PtriggerLaterInstantBlocks ==
    /\ [][\A t \in Tasks :
             (on /\ trigger_time < now /\ wait_ptrigger(t)) => epc'[t] = "wp_wait"]_vars
    /\ [][\A t \in Tasks :
             (epc[t] = "wp_wait" /\ epc'[t] = "wp_run") =>
                 \/ \E d \in Payloads, r \in PreReturns : trigger(d, r)
                 \/ reset(TRUE)]_vars

\* C33: delete(key) on a registry of the class UVMObjectStringPool (or a
\* subclass) returns and leaves the registry without key and with its other
\* entries unchanged when key exists; when it does not, the call only reports
\* the warning and leaves the registry unchanged.
C33_StringPoolDelete ==
    [][\A p \in 1..Len(pools), key \in Keys :
         (pools[p].cls \in StringPoolClasses /\ pool_delete(p, key)) =>
             IF exists(pools[p], key)
             THEN /\ pret' = NoneRef
                  /\ DOMAIN pools'[p].item = DOMAIN pools[p].item \ {key}
                  /\ \A k \in DOMAIN pools'[p].item : pools'[p].item[k] = pools[p].item[k]
             ELSE /\ pret' = WarnedPOOLDEL
                  /\ pools' = pools]_vars

\* C36: on a UVMPool, after any calls of add, get, delete, first, last, next
\* and prev, a call of next or prev returns a key the registry holds or None:
\* it does not fail and returns no deleted key.
C36_CursorInsideKeys ==
    [][\A p \in 1..Len(pools) :
         (pool_next(p) \/ pool_prev(p)) =>
             \/ pret' = NoneRef
             \/ \E k \in DOMAIN pools'[p].item : pret' = KeyRet(k)]_vars

\* C39: an element built through the global pool of the event registry
\* (UVMEventPool.get_global) is built by the factory of the event registry,
\* UVMEvent; and the global pools of the event registry and of the barrier
\* registry are different instances: once a global pool exists, a call that
\* returns the global pool of the one does not return what the same call on
\* the other returns.
C39_EventGlobalPool ==
    /\ [][\A key \in Keys :
             (UVMObjectStringPool_get_global("UVMEventPool", key)
              /\ Len(heap') > Len(heap)) =>
                 heap'[Len(heap')].cls = "UVMEvent"]_vars
    /\ [][(/\ UVMObjectStringPool_m_global_pool # 0
           /\ UVMObjectStringPool_get_global_pool("UVMEventPool")) =>
             ~UVMObjectStringPool_get_global_pool("UVMBarrierPool")]_vars

\* the tasks blocked on the event: suspended in wait_trigger or wait_ptrigger
\* (on the current m_event or on one that reset has replaced), or in wait_on or
\* wait_off waiting for the value to change
BlockedOnEvent == {t \in Tasks : epc[t] \in {"wt_wait", "wp_wait", "orphan",
                                             "won_wait", "woff_wait"}}

\* C35: whenever the tasks are at their suspension points, num_waiters is the
\* number of tasks blocked on the event in wait_trigger, wait_ptrigger, wait_on
\* or wait_off.
C35_WaiterCount == num_waiters = Cardinality(BlockedOnEvent)

\* C34: set() releases exactly the tasks blocked in wait() when it is called
\* (none: it changes nothing); a wait() call blocks, also when it is made
\* after a set() whose released waiters have not all resumed; and a task
\* blocked in wait() is released only by a set().
C34_SetReleasesBlocked ==
    /\ [][set => /\ \A t \in Tasks : epc'[t] = "w_run" <=> epc[t] \in {"w_wait", "w_run"}
                 /\ (\A t \in Tasks : epc[t] # "w_wait") =>
                        UNCHANGED <<epc, m_waiters, on_event>>]_vars
    /\ [][\A t \in Tasks : wait_call(t) => epc'[t] = "w_wait"]_vars
    /\ [][\A t \in Tasks : (epc[t] = "w_wait" /\ epc'[t] = "w_run") => set]_vars

(***************************************************************************)
(* Claims about the domains and the phasing-active counter in the          *)
(* top-down traversal.                                                     *)
(***************************************************************************)

\* what a traversal in the given state calls on a component it applies to
CalledIn(state) ==
    CASE state = UVM_PHASE_STARTED -> "phase_started"
      [] state = UVM_PHASE_EXECUTING -> "exec_func"
      [] state = UVM_PHASE_READY_TO_END -> "phase_ready_to_end"
      [] state = UVM_PHASE_ENDED -> "phase_ended"

\* C38: in a top-down traversal of a phase whose domain is not the common
\* domain, a component whose domain differs from the phase's domain receives
\* no call at all (no notification, no action), while the traversal still
\* descends into each of its children, and a child whose own domain is the
\* phase's receives the call of the state (the action, in EXECUTING, unless the
\* build-done rule skips it).
C38_MismatchDescends ==
    (Visiting(tcall.state) /\ get_domain(tcall.phase) # get_common_domain) =>
        \A c \in Comps :
            comp_domain[c] # get_domain(tcall.phase) =>
                /\ \A i \in DOMAIN tlog : tlog[i].comp # c
                /\ \A k \in DOMAIN children[c] :
                       /\ \E j \in DOMAIN tvisited : tvisited[j] = children[c][k]
                       /\ (/\ comp_domain[children[c][k]] = get_domain(tcall.phase)
                           /\ ~(tcall.state = UVM_PHASE_EXECUTING
                                  /\ get_name(tcall.phase) = "build"
                                  /\ m_build_done[children[c][k]]))
                            => children[c][k] \in Delivered(tlog, CalledIn(tcall.state))

\* a STARTED traversal of a phase of the domain d1 passed over the root, which
\* is in the common domain, and notified its child in d1, and nobody else
C38_Witness ==
    /\ tcall = [phase |-> "d1.build", state |-> UVM_PHASE_STARTED]
    /\ comp_domain[Root] = "common"
    /\ children[Root] # <<>>
    /\ comp_domain[children[Root][1]] = "d1"
    /\ Delivered(tlog, "phase_started") = {children[Root][1]}
    /\ Len(tvisited) = NumComps

\* C37: a component's phasing-active counter is greater than zero exactly
\* while one of its phase actions is executing (it is above zero at every
\* invocation of an action on the component, and zero between traversals), and
\* after every EXECUTING traversal it is back to the value it had before the
\* traversal, whether the actions return normally or fail.
C37_PhasingActiveRestored ==
    /\ [](\A i \in DOMAIN tlog : tlog[i].ev = "exec_func" <=> tlog[i].active > 0)
    /\ [](\A c \in Comps : m_phasing_active[c] = 0)
    /\ [][\A phase \in PhaseNodes, failing \in SUBSET Comps :
            topdown_traverse_failing(phase, UVM_PHASE_EXECUTING, failing) =>
                m_phasing_active' = m_phasing_active]_vars
====
